---------------------------- MODULE Spec2Model ----------------------------
(***************************************************************************)
(* A model of backboard_browser's TTL cache (app/services/cache.py), which *)
(* keeps its entries as memories of a reserved assistant of the remote     *)
(* Backboard platform (app/services/backboard.py), and of the HTTP         *)
(* handlers (app/api) that answer from it.                                 *)
(*                                                                         *)
(* One action is one remote call taking effect, followed by the local      *)
(* computation of the calling method up to its next remote call (or its    *)
(* return).  The remote platform lists assistants and memories in creation *)
(* order.  Time is counted in ticks of 1/TicksPerSecond second, and        *)
(* int(time.time()) is the whole number of seconds elapsed.                *)
(***************************************************************************)
EXTENDS Integers, Sequences, FiniteSets, TLC

VARIABLES
    clock,       \* time.time(), in ticks
    assistants,  \* remote: the account's assistants, in listing order
    memories,    \* remote: all memories, in listing order
    nextId,      \* remote: the next id the platform assigns
    inst,        \* per client: its BackboardCache instance and the call in progress
    prev,        \* history: per client, the call it completed before its latest one
    ops,         \* history: the number of calls started
    session,     \* session['backboard_api_key'], "" when the session holds none
    req,         \* per client: the HTTP request it is in, and its response
    threads,     \* remote: the items the platform answers GET /threads with
    catalog,     \* remote: per API key, the models the platform lists for it
    models_cache,       \* backboard._models_cache
    models_cache_time   \* backboard._models_cache_time, in ticks

\* The state of the cache and of the platform's assistants and memories
cacheVars == <<clock, assistants, memories, nextId, inst, prev, ops>>

\* The state of the HTTP layer
web == <<session, req, threads, catalog, models_cache, models_cache_time>>

vars == <<clock, assistants, memories, nextId, inst, prev, ops,
          session, req, threads, catalog, models_cache, models_cache_time>>

----------------------------------------------------------------------------
(* Program constants *)

CACHE_ASSISTANT_NAME == "bb_browser_cache"
CACHE_TTL == 3600
ListLimit == 100

(* Bounds of the model *)

TicksPerSecond == 2
MaxOps == 3
MaxFine == 2

Clients == {1, 2, 3}

\* The clock is observed at its first ticks, and at one instant CACHE_TTL
\* seconds after the last of them.
Later == CACHE_TTL * TicksPerSecond + MaxFine

----------------------------------------------------------------------------
(* Python values: None and the JSON values, each kind a record of its own  *)
(* shape, so that "42" and 42 are different values.                        *)

None == [null |-> TRUE]
JBool(b) == [bool |-> b]
JInt(n) == [int |-> n]
JStr(s) == [str |-> s]
JList(l) == [list |-> l]
JMap(m) == [map |-> m]      \* a sequence of <<key, value>> pairs

IsStr(v) == DOMAIN v = {"str"}

\* The values the callers of the model pass to set.
Values ==
    { JMap(<< <<"count", JInt(42)>>, <<"providers", JInt(5)>> >>),
      JInt(42),
      JStr("v1"),
      JStr("v2"),
      JStr("42") }

\* The values a stored text can decode to.
Decodable ==
    { JMap(<< <<"count", JInt(42)>>, <<"providers", JInt(5)>> >>),
      JInt(42),
      JStr("v1"),
      JStr("v2"),
      JStr("42"),
      None,
      JInt(5),
      JBool(TRUE),
      JList(<<JInt(42), JStr("v1")>>) }

RECURSIVE Dumps(_)
RECURSIVE DumpsItems(_)
RECURSIVE DumpsPairs(_)

\* json.dumps's text of the items of a list.
DumpsItems(l) ==
    IF l = <<>> THEN ""
    ELSE IF Len(l) = 1 THEN Dumps(l[1])
    ELSE Dumps(l[1]) \o ", " \o DumpsItems(Tail(l))

\* json.dumps's text of the members of a map.
DumpsPairs(m) ==
    IF m = <<>> THEN ""
    ELSE LET one == "\"" \o m[1][1] \o "\": " \o Dumps(m[1][2])
         IN  IF Len(m) = 1 THEN one ELSE one \o ", " \o DumpsPairs(Tail(m))

\* json.dumps(value)
Dumps(v) ==
    CASE DOMAIN v = {"null"} -> "null"
      [] DOMAIN v = {"bool"} -> (IF v.bool THEN "true" ELSE "false")
      [] DOMAIN v = {"int"}  -> ToString(v.int)
      [] DOMAIN v = {"str"}  -> "\"" \o v.str \o "\""
      [] DOMAIN v = {"list"} -> "[" \o DumpsItems(v.list) \o "]"
      [] DOMAIN v = {"map"}  -> "{" \o DumpsPairs(v.map) \o "}"

\* The counts the count handlers store: a number, and for the models the
\* numbers of models and of providers.
MaxCount == ListLimit + 5
Counts == { JInt(n) : n \in 0..MaxCount }
ModelCounts ==
    { JMap(<< <<"count", JInt(a)>>, <<"providers", JInt(b)>> >>) : a, b \in 0..4 }

\* Whether json.loads(text) succeeds, and its result: the value whose JSON
\* text it is.
Parses(text) ==
    \/ \E v \in Decodable : Dumps(v) = text
    \/ \E v \in Counts : Dumps(v) = text
    \/ \E v \in ModelCounts : Dumps(v) = text
Loads(text) ==
    IF \E v \in Decodable : Dumps(v) = text
    THEN CHOOSE v \in Decodable : Dumps(v) = text
    ELSE IF \E v \in Counts : Dumps(v) = text
    THEN CHOOSE v \in Counts : Dumps(v) = text
    ELSE CHOOSE v \in ModelCounts : Dumps(v) = text

\* set: the content stored for a value
Encode(value) == IF ~IsStr(value) THEN Dumps(value) ELSE value.str

\* get: the value returned for a stored content
Decode(content) == IF Parses(content) THEN Loads(content) ELSE JStr(content)


----------------------------------------------------------------------------
(* The remote platform, as BackboardService reaches it *)

Keys == {"k", ""}

\* The ttl arguments of set; 0 stands for an omitted, None or 0 ttl.
TtlArgs == {0, 1}

\* int(time.time())
Now == clock \div TicksPerSecond

\* A memory's metadata is a record of the fields it carries; a memory stored
\* without metadata carries NoMeta.
NoMeta == [none |-> TRUE]
HasMeta(md) == md # NoMeta
MetaGet(md, f, default) == IF f \in DOMAIN md THEN md[f] ELSE default

Min(a, b) == IF a <= b THEN a ELSE b

\* BackboardService.list_assistants(): the first page only (skip=0, limit=100)
ListAssistantsResult == SubSeq(assistants, 1, Min(Len(assistants), ListLimit))

\* BackboardService.list_memories(assistant_id)
ListMemoriesResult(aid) == SelectSeq(memories, LAMBDA m : m.aid = aid)

\* The platform holds memory id of assistant aid.
Stored(id, aid) == \E j \in 1..Len(memories) : memories[j].id = id /\ memories[j].aid = aid

\* BackboardService.delete_memory(memory_id, assistant_id), the platform's side
Removed(id, aid) == SelectSeq(memories, LAMBDA m : ~(m.id = id /\ m.aid = aid))

\* BackboardService.store_memory(memory, assistant_id), the platform's side
Added(id, aid, content, md) ==
    Append(memories, [id |-> id, aid |-> aid, content |-> content, metadata |-> md])

\* The least index j >= i of s with P(s[j]), or 0.
FirstFrom(s, i, P(_)) ==
    LET J == { j \in i..Len(s) : P(s[j]) }
    IN  IF J = {} THEN 0 ELSE CHOOSE j \in J : \A k \in J : j <= k

----------------------------------------------------------------------------
(* BackboardCache *)

\* memory.metadata and memory.metadata.get('cache_key') == key
Matches(m, key) ==
    HasMeta(m.metadata) /\ "cache_key" \in DOMAIN m.metadata /\ m.metadata.cache_key = key

\* The ttl argument taken as it is.
TtlOf_AsGiven(ttl) == ttl

\* ttl or self.CACHE_TTL, of a ttl argument that is an integer or absent (0)
TtlOf(ttl) == IF ttl # 0 THEN ttl ELSE CACHE_TTL

\* get's test: int(time.time()) - cache_time < cache_ttl
Valid(m, now, ttl) ==
    now - MetaGet(m.metadata, "cache_time", 0)
        < MetaGet(m.metadata, "ttl", TtlOf(ttl))

\* clear_expired without its test of the age: every cache entry is deleted.
ClearMatches_NoAge(m, current_time) ==
    /\ HasMeta(m.metadata)
    /\ MetaGet(m.metadata, "cache_key", "") # ""

\* clear_expired without its test of cache_key: every memory with metadata
\* that is old enough is deleted.
ClearMatches_NoKey(m, current_time) ==
    /\ HasMeta(m.metadata)
    /\ current_time - MetaGet(m.metadata, "cache_time", 0)
           >= MetaGet(m.metadata, "ttl", CACHE_TTL)

\* clear_expired's test of one memory
ClearMatches(m, current_time) ==
    /\ HasMeta(m.metadata)
    /\ MetaGet(m.metadata, "cache_key", "") # ""
    /\ current_time - MetaGet(m.metadata, "cache_time", 0)
           >= MetaGet(m.metadata, "ttl", CACHE_TTL)

\* A BackboardCache instance with no call in progress.
Idle ==
    [ pc |-> "idle", aid |-> 0,
      op |-> "none", key |-> "", value |-> None, ttl |-> 0,
      mems |-> <<>>, i |-> 0, dmems |-> <<>>, di |-> 0, t |-> 0, n |-> 0,
      ret |-> None,
      \* history of the call, for the properties: the tick at which it read the
      \* time, the platform's memories and number of assistants when it began,
      \* whether a remote call of it raised, the entries its get found expired
      tick |-> 0, m0 |-> <<>>, a0 |-> 0, failed |-> FALSE, expired |-> {},
      \* and the remote calls of it that raised
      at |-> {} ]

\* return ret
Finish(r, ret) ==
    [r EXCEPT !.pc = "idle", !.ret = ret,
              !.mems = <<>>, !.i = 0, !.dmems = <<>>, !.di = 0, !.t = 0, !.n = 0]

\* get's loop over memories, from index i on
GetScan(r, i) ==
    LET j == FirstFrom(r.mems, i, LAMBDA m : Matches(m, r.key))
    IN  IF j = 0 THEN Finish(r, None)
        ELSE IF Valid(r.mems[j], Now, r.ttl)
        THEN Finish([r EXCEPT !.tick = clock], Decode(r.mems[j].content))
        ELSE \* self.delete(key): the assistant id is cached, list_memories is next
             [r EXCEPT !.pc = "d_list_memories", !.i = j, !.tick = clock,
                       !.expired = @ \cup {r.mems[j].id}]

\* What follows self.delete(key) returning ok
DeleteReturn(r, ok) ==
    CASE r.op = "delete" -> Finish(r, JBool(ok))
      [] r.op = "set" ->
            \* the result is not looked at; cache_data is built next
            [r EXCEPT !.pc = "store_memory", !.t = Now, !.tick = clock,
                      !.dmems = <<>>, !.di = 0]
      [] r.op = "get" ->
            \* the result is not looked at; the loop goes on
            GetScan([r EXCEPT !.dmems = <<>>, !.di = 0], r.i + 1)

\* delete's loop without its test of the key: every cache entry is deleted.
DelScan_AnyKey(r, i) ==
    LET j == FirstFrom(r.dmems, i, LAMBDA m : HasMeta(m.metadata) /\ m.id # 0)
    IN  IF j = 0 THEN DeleteReturn(r, TRUE)
        ELSE [r EXCEPT !.pc = "d_delete_memory", !.di = j]

\* delete's loop deleting nothing.
DelScan_Keep(r, i) == DeleteReturn(r, TRUE)

\* delete's loop over memories, from index i on
DelScan(r, i) ==
    LET j == FirstFrom(r.dmems, i, LAMBDA m : Matches(m, r.key) /\ m.id # 0)
    IN  IF j = 0 THEN DeleteReturn(r, TRUE)
        ELSE [r EXCEPT !.pc = "d_delete_memory", !.di = j]

\* clear_expired's loop over memories, from index i on
ClearScan(r, i) ==
    LET j == FirstFrom(r.mems, i, LAMBDA m : ClearMatches(m, r.t) /\ m.id # 0)
    IN  IF j = 0 THEN Finish(r, JInt(r.n))
        ELSE [r EXCEPT !.pc = "c_delete_memory", !.i = j]

\* set without its self.delete(key): the new entry is stored at once.
AfterResolve_NoDelete(r, a) ==
    IF r.op \in {"get", "clear_expired"}
    THEN [r EXCEPT !.aid = a, !.pc = "list_memories"]
    ELSE IF r.op = "set"
    THEN [r EXCEPT !.aid = a, !.pc = "store_memory", !.t = Now, !.tick = clock]
    ELSE [r EXCEPT !.aid = a, !.pc = "d_list_memories"]

\* What follows _get_cache_assistant_id() returning a
AfterResolve(r, a) ==
    IF r.op \in {"get", "clear_expired"}
    THEN [r EXCEPT !.aid = a, !.pc = "list_memories"]
    ELSE [r EXCEPT !.aid = a, !.pc = "d_list_memories"]

\* What each method returns from its except clause
OnError(r) ==
    CASE r.op = "get" -> None
      [] r.op = "set" -> JBool(FALSE)
      [] r.op = "delete" -> JBool(FALSE)
      [] r.op = "clear_expired" -> JInt(0)

\* What the history keeps of a completed call.
Summary(r) ==
    [ op |-> r.op, key |-> r.key, value |-> r.value, ttl |-> r.ttl,
      ret |-> r.ret, tick |-> r.tick, failed |-> r.failed, at |-> r.at ]

NoCall == Summary(Idle)

\* Client c's instance becomes r.
Update(c, r) == inst' = [inst EXCEPT ![c] = r]

----------------------------------------------------------------------------
(* Actions *)

\* Client c calls get, set, delete or clear_expired, on a fresh instance or
\* on the one it has; the method starts with _get_cache_assistant_id().
Begin(c, call, fresh) ==
    /\ inst[c].pc = "idle"
    /\ LET r == [Idle EXCEPT !.aid = IF fresh THEN 0 ELSE inst[c].aid,
                             !.op = call.op, !.key = call.key,
                             !.value = call.value, !.ttl = call.ttl,
                             !.tick = clock,
                             !.m0 = memories, !.a0 = Len(assistants)]
       IN  Update(c, IF r.aid # 0 THEN AfterResolve(r, r.aid)
                     ELSE [r EXCEPT !.pc = "list_assistants"])
    /\ prev' = [prev EXCEPT ![c] = Summary(inst[c])]
    /\ ops' = ops + 1
    /\ UNCHANGED <<clock, assistants, memories, nextId>>

\* A caller calls get or delete of a key, set of a key to a value with a ttl,
\* or clear_expired.
StartOp(c, keys, values, ttls) ==
    /\ ops < MaxOps
    /\ UNCHANGED web
    /\ \E fresh \in BOOLEAN :
          \/ \E key \in keys :
                Begin(c, [op |-> "get", key |-> key, value |-> None, ttl |-> 0], fresh)
          \/ \E key \in keys :
                \E value \in values :
                   \E ttl \in ttls :
                      Begin(c, [op |-> "set", key |-> key, value |-> value, ttl |-> ttl], fresh)
          \/ \E key \in keys :
                Begin(c, [op |-> "delete", key |-> key, value |-> None, ttl |-> 0], fresh)
          \/ Begin(c, [op |-> "clear_expired", key |-> "", value |-> None, ttl |-> 0], fresh)

\* _get_cache_assistant_id: self.service.list_assistants() and the search
ListAssistants(c) ==
    /\ inst[c].pc = "list_assistants"
    /\ LET l == ListAssistantsResult
           j == FirstFrom(l, 1, LAMBDA a : a.name = CACHE_ASSISTANT_NAME)
       IN  Update(c, IF j # 0 THEN AfterResolve(inst[c], l[j].id)
                     ELSE [inst[c] EXCEPT !.pc = "create_assistant"])
    /\ UNCHANGED <<clock, assistants, memories, nextId, prev, ops>>
    /\ UNCHANGED web

\* _get_cache_assistant_id: self.service.create_assistant(...)
CreateAssistant(c) ==
    /\ inst[c].pc = "create_assistant"
    /\ assistants' = Append(assistants, [id |-> nextId, name |-> CACHE_ASSISTANT_NAME])
    /\ nextId' = nextId + 1
    /\ Update(c, AfterResolve(inst[c], nextId))
    /\ UNCHANGED <<clock, memories, prev, ops>>
    /\ UNCHANGED web

\* get, clear_expired: self.service.list_memories(assistant_id) and the loop
ListMemories(c) ==
    /\ inst[c].pc = "list_memories"
    /\ LET r == [inst[c] EXCEPT !.mems = ListMemoriesResult(inst[c].aid)]
       IN  Update(c, IF r.op = "get" THEN GetScan(r, 1)
                     ELSE ClearScan([r EXCEPT !.t = Now, !.tick = clock, !.n = 0], 1))
    /\ UNCHANGED <<clock, assistants, memories, nextId, prev, ops>>
    /\ UNCHANGED web

\* delete: self.service.list_memories(assistant_id) and the loop
DeleteListMemories(c) ==
    /\ inst[c].pc = "d_list_memories"
    /\ Update(c, DelScan([inst[c] EXCEPT !.dmems = ListMemoriesResult(inst[c].aid)], 1))
    /\ UNCHANGED <<clock, assistants, memories, nextId, prev, ops>>
    /\ UNCHANGED web

\* delete: self.service.delete_memory(memory.id, assistant_id); the platform
\* refuses to delete a memory it does not hold, and delete's except returns False
DeleteDeleteMemory(c) ==
    /\ inst[c].pc = "d_delete_memory"
    /\ LET r == inst[c]
           m == r.dmems[r.di]
       IN  IF Stored(m.id, r.aid)
           THEN /\ memories' = Removed(m.id, r.aid)
                /\ Update(c, DelScan(r, r.di + 1))
           ELSE /\ memories' = memories
                /\ Update(c, DeleteReturn(r, FALSE))
    /\ UNCHANGED <<clock, assistants, nextId, prev, ops>>
    /\ UNCHANGED web

\* clear_expired: self.service.delete_memory(memory.id, assistant_id)
ClearDeleteMemory(c) ==
    /\ inst[c].pc = "c_delete_memory"
    /\ LET r == inst[c]
           m == r.mems[r.i]
       IN  IF Stored(m.id, r.aid)
           THEN /\ memories' = Removed(m.id, r.aid)
                /\ Update(c, ClearScan([r EXCEPT !.n = @ + 1], r.i + 1))
           ELSE /\ memories' = memories
                /\ Update(c, Finish(r, OnError(r)))
    /\ UNCHANGED <<clock, assistants, nextId, prev, ops>>
    /\ UNCHANGED web

\* set: self.service.store_memory(memory_create, assistant_id)
StoreMemory(c) ==
    /\ inst[c].pc = "store_memory"
    /\ LET r == inst[c]
           cache_data == [ cache_key |-> r.key, cache_time |-> r.t,
                           ttl |-> TtlOf(r.ttl) ]
       IN  /\ memories' = Added(nextId, r.aid, Encode(r.value), cache_data)
           /\ Update(c, Finish(r, JBool(TRUE)))
    /\ nextId' = nextId + 1
    /\ UNCHANGED <<clock, assistants, prev, ops>>
    /\ UNCHANGED web

\* The remote call client c is waiting for raises (transport or platform error).
RemoteError(c) ==
    /\ inst[c].pc # "idle"
    /\ LET r == [inst[c] EXCEPT !.failed = TRUE, !.at = @ \cup {inst[c].pc}]
       IN  Update(c, IF r.pc \in {"d_list_memories", "d_delete_memory"}
                     THEN DeleteReturn(r, FALSE)
                     ELSE Finish(r, OnError(r)))
    /\ UNCHANGED <<clock, assistants, memories, nextId, prev, ops>>
    /\ UNCHANGED web

\* Time passes.
Tick ==
    /\ \/ clock < MaxFine /\ clock' = clock + 1
       \/ clock < Later /\ clock' = Later
    /\ UNCHANGED <<assistants, memories, nextId, inst, prev, ops>>
    /\ UNCHANGED web

----------------------------------------------------------------------------
(* Threads: BackboardService.list_threads and _dict_to_model(item, Thread)  *)
(* on the JSON the platform answers GET /threads with.  A JSON object is a  *)
(* JDict, a function from its keys to its values.                           *)

JDict(d) == [dict |-> d]
IsDict(v) == DOMAIN v = {"dict"}
IsList(v) == DOMAIN v = {"list"}
IsInt(v) == DOMAIN v = {"int"}

\* k in d, d.get(k, default), d without k, d with d[k] = v
DictHas(d, k) == k \in DOMAIN d.dict
DictGet(d, k, default) == IF k \in DOMAIN d.dict THEN d.dict[k] ELSE default
DictPop(d, k) == JDict([x \in DOMAIN d.dict \ {k} |-> d.dict[x]])
DictSet(d, k, v) ==
    JDict([x \in DOMAIN d.dict \cup {k} |-> IF x = k THEN v ELSE d.dict[x]])

\* str(v) of a JSON scalar
PyStr(v) ==
    CASE DOMAIN v = {"str"}  -> v.str
      [] DOMAIN v = {"int"}  -> ToString(v.int)
      [] DOMAIN v = {"null"} -> "None"
      [] DOMAIN v = {"bool"} -> (IF v.bool THEN "True" ELSE "False")

\* The texts pydantic reads as a datetime.
Datetimes == { "2024-01-01T00:00:00Z" }

\* Optional[str], Optional[datetime], Optional[dict] accept v
OptionalStr(v) == v = None \/ IsStr(v)
OptionalDatetime(v) == v = None \/ IsInt(v) \/ (IsStr(v) /\ v.str \in Datetimes)
OptionalDict(v) == v = None \/ IsDict(v)

\* A conversion that leaves the value as it is.
Str_Raw(v) == v

\* str(v), a Python value again
Str(v) == JStr(PyStr(v))

\* A Message of role, content and timestamp.
MessageOf(role, content, timestamp) ==
    [role |-> role, content |-> content, timestamp |-> timestamp]
IsMessage(v) == DOMAIN v = {"role", "content", "timestamp"}

\* Message(**data) of models/thread.py: __init__ makes a role that is given a
\* string, a role that is not given defaults to 'user'; content and timestamp
\* are validated.
MessageInit(data) ==
    [ ok |-> /\ IsStr(DictGet(data, "content", JStr("")))
             /\ OptionalDatetime(DictGet(data, "timestamp", None)),
      message |-> MessageOf(IF DictHas(data, "role") THEN Str(data.dict.role)
                                                    ELSE JStr("user"),
                            DictGet(data, "content", JStr("")),
                            DictGet(data, "timestamp", None)) ]

\* Message.model_construct(role=str(msg.get('role', 'user')),
\*                         content=str(msg.get('content', '')),
\*                         timestamp=msg.get('timestamp')): nothing is validated
ConstructMessage(msg) ==
    MessageOf(Str(DictGet(msg, "role", JStr("user"))),
              Str(DictGet(msg, "content", JStr(""))),
              DictGet(msg, "timestamp", None))

\* The loop over messages: a dict gives a Message, any other JSON value (it
\* has no __dict__) gives nothing.
ProcessMessages(l) ==
    LET ds == SelectSeq(l, IsDict)
    IN  [i \in 1..Len(ds) |-> ConstructMessage(ds[i])]

\* list_threads's pre-processing of a dict item: the role of every message
\* dict that has one is made a string, in place.
StrRoles(item) ==
    IF DictHas(item, "messages") /\ IsList(item.dict.messages)
    THEN DictSet(item, "messages",
           JList([i \in 1..Len(item.dict.messages.list) |->
              LET msg == item.dict.messages.list[i]
              IN  IF IsDict(msg) /\ DictHas(msg, "role")
                  THEN DictSet(msg, "role", Str(msg.dict.role))
                  ELSE msg]))
    ELSE item

\* Thread(**data_dict): the fields pydantic validates; messages that are
\* Message instances are taken as they are.
ThreadValid(d) ==
    /\ OptionalStr(DictGet(d, "id", None))
    /\ OptionalStr(DictGet(d, "title", None))
    /\ LET ms == DictGet(d, "messages", None)
       IN  ms = None \/ (IsList(ms) /\ \A i \in 1..Len(ms.list) : IsMessage(ms.list[i]))
    /\ OptionalDatetime(DictGet(d, "created_at", None))
    /\ OptionalDatetime(DictGet(d, "updated_at", None))
    /\ OptionalDict(DictGet(d, "metadata", None))

\* The Thread built from a valid data_dict.
ThreadOf(d) ==
    [ id |-> DictGet(d, "id", None), title |-> DictGet(d, "title", None),
      messages |-> DictGet(d, "messages", None),
      created_at |-> DictGet(d, "created_at", None) ]

\* A result of a conversion: raised, or returned thread.
Raised == [raised |-> TRUE]
Converted(thread) == [raised |-> FALSE, thread |-> thread]

\* _dict_to_model(data, Thread) for a dict: thread_id becomes id, the
\* messages are processed, Thread(**data_dict) is tried, then model_validate
\* (which fails as Thread did), then the last resort.
DictToThread(data) ==
    LET d1 == IF DictHas(data, "thread_id")
              THEN DictSet(DictPop(data, "thread_id"), "id", Str(data.dict.thread_id))
              ELSE data
        d2 == IF DictHas(d1, "messages") /\ IsList(d1.dict.messages)
              THEN DictSet(d1, "messages", JList(ProcessMessages(d1.dict.messages.list)))
              ELSE d1
    IN  IF ThreadValid(d2) THEN Converted(ThreadOf(d2))
        ELSE IF ~DictHas(d2, "messages") THEN Raised
        ELSE LET ms == d2.dict.messages
             IN  \* for msg in data_dict['messages']: a list (of Message
                 \* instances by now), a str or a dict can be iterated and
                 \* gives no dict; None, a number or a bool raises TypeError
                 IF ~(IsList(ms) \/ IsStr(ms) \/ IsDict(ms)) THEN Raised
                 ELSE LET d3 == DictSet(d2, "messages", JList(<<>>))
                      IN  IF ThreadValid(d3) THEN Converted(ThreadOf(d3)) ELSE Raised

\* list_threads's except clause: the minimal thread of an item.
MinimalThread(item) ==
    IF ~IsDict(item)
    THEN \* every getattr(item, ...) gives None: id '', no title, no message
         Converted(ThreadOf(JDict([id |-> JStr(""), messages |-> JList(<<>>)])))
    ELSE LET tid == DictGet(item, "thread_id", None)
             d == JDict([ id |-> JStr(IF tid \in {None, JStr(""), JInt(0), JBool(FALSE),
                                                  JList(<<>>), JDict(<<>>)}
                                     THEN "" ELSE PyStr(tid)),
                          title |-> DictGet(item, "title", None),
                          created_at |-> DictGet(item, "created_at", None),
                          updated_at |-> DictGet(item, "updated_at", None) ])
             ms == DictGet(item, "messages", None)
         IN  IF DictHas(item, "messages") /\ ~(IsList(ms) \/ IsStr(ms) \/ IsDict(ms))
             THEN Raised
             ELSE LET d2 == DictSet(d, "messages",
                               JList(IF DictHas(item, "messages") /\ IsList(ms)
                                     THEN ProcessMessages(ms.list) ELSE <<>>))
                  IN  IF ThreadValid(d2) THEN Converted(ThreadOf(d2)) ELSE Raised

\* A conversion that validates roles as the SDK's MessageRole enum does.
ItemThread_EnumRoles(item) ==
    IF IsDict(item) /\ DictHas(item, "messages") /\ IsList(item.dict.messages)
       /\ \E i \in 1..Len(item.dict.messages.list) :
             LET msg == item.dict.messages.list[i]
             IN  IsDict(msg) /\ DictGet(msg, "role", JStr("user"))
                                  \notin {JStr("user"), JStr("assistant"), JStr("system")}
    THEN Raised
    ELSE IF IsDict(item) THEN DictToThread(StrRoles(item)) ELSE DictToThread(JDict(<<>>))

\* The body of list_threads's loop for one item: the conversion, and the
\* minimal thread when it raises; an item that is no dict (a JSON value has
\* neither __dict__ nor model_dump) is converted as the empty dict.
ItemThread(item) ==
    LET first == IF IsDict(item) THEN DictToThread(StrRoles(item))
                 ELSE DictToThread(JDict(<<>>))
    IN  IF ~first.raised THEN first
        ELSE LET converted == IF IsDict(item) THEN StrRoles(item) ELSE item
             IN  MinimalThread(converted)

\* BackboardService.list_threads() on the items the platform sent: the
\* threads of the items whose conversion did not raise twice.
RECURSIVE ListThreadsResult(_)
ListThreadsResult(items) ==
    IF items = <<>> THEN <<>>
    ELSE LET t == ItemThread(Head(items))
         IN  (IF t.raised THEN <<>> ELSE <<t.thread>>) \o ListThreadsResult(Tail(items))

\* The message payloads of the model: a role that is a string, one that is
\* a number, one that is null, no role; and a message that is no object.
Msg(role, content) == JDict([role |-> role, content |-> JStr(content)])
NoRoleMsg(content) == JDict([content |-> JStr(content)])

\* The thread items of the model: two well formed,
ThreadPlain ==
    JDict([thread_id |-> JStr("t1"), title |-> JStr("a"),
           messages |-> JList(<<Msg(JStr("assistant"), "hi")>>)])
ThreadRoles ==
    JDict([thread_id |-> JStr("t2"),
           messages |-> JList(<<Msg(JInt(123), "x"), NoRoleMsg("y"),
                                Msg(JStr("tool"), "z")>>)])
\* one without messages field, one with a message that is no object, one
\* whose messages are no list,
ThreadNoMessages == JDict([thread_id |-> JStr("t3"), title |-> JStr("b")])
ThreadBadMessage ==
    JDict([thread_id |-> JStr("t4"),
           messages |-> JList(<<JStr("garbage"), Msg(None, "n")>>)])
ThreadMessagesInt == JDict([thread_id |-> JStr("t5"), messages |-> JInt(5)])
\* one whose title is no string, one whose id is no string, and an item that
\* is no object.
ThreadBadTitle ==
    JDict([thread_id |-> JStr("t6"), title |-> JInt(7), messages |-> JList(<<>>)])
ThreadBadId == JDict([id |-> JInt(9), messages |-> JList(<<Msg(JStr("user"), "q")>>)])
ThreadNoObject == JStr("oops")

ThreadItems ==
    { ThreadPlain, ThreadRoles, ThreadNoMessages, ThreadBadMessage,
      ThreadMessagesInt, ThreadBadTitle, ThreadBadId, ThreadNoObject }

MaxThreads == 2

\* The listings of at most MaxThreads items.
ThreadLists == UNION { [1..n -> ThreadItems] : n \in 0..MaxThreads }

----------------------------------------------------------------------------
(* The HTTP layer *)

\* What a request carries, as far as the handlers look at it: whether the
\* JSON body is an object, whether assistant_id, thread_id, the field the
\* pydantic model requires (name, content, query) and an uploaded file are
\* given, and whether skip and limit are integers.
Fields == {"body", "assistant_id", "thread_id", "required", "ints", "file"}

\* The fields a request of the model goes without.
Defects ==
    { {}, {"body"}, {"assistant_id"}, {"thread_id"}, {"required"}, {"ints"},
      {"file"}, {"assistant_id", "thread_id"} }

Inputs == { [f \in Fields |-> f \notin D] : D \in Defects }

NoInput == [f \in Fields |-> TRUE]

\* The handlers that start with get_service(), by route.
ServiceEndpoints ==
    { "GET /api/assistants", "GET /api/assistants/{id}", "POST /api/assistants",
      "PUT /api/assistants/{id}", "DELETE /api/assistants/{id}",
      "GET /api/assistants/{id}/threads", "GET /api/assistants/{id}/memories",
      "GET /api/memory", "GET /api/memory/{id}", "POST /api/memory",
      "POST /api/memory/search", "DELETE /api/memory/{id}",
      "GET /api/threads", "GET /api/threads/{id}", "POST /api/threads",
      "DELETE /api/threads/{id}",
      "GET /api/documents", "GET /api/documents/{id}", "POST /api/documents",
      "DELETE /api/documents/{id}",
      "GET /api/models", "GET /api/models/{id}" }

\* The platform's catalogue of models, as GET /api/models answers it: two
\* models of one provider, one of another, one without provider, and one
\* item ModelInfo does not validate.
Catalogue ==
    << JDict([name |-> JStr("gpt-4o"), provider |-> JStr("openai")]),
       JDict([name |-> JStr("gpt-4"), provider |-> JStr("openai")]),
       JDict([name |-> JStr("claude"), provider |-> JStr("anthropic")]),
       JDict([name |-> JStr("local")]),
       JDict([name |-> JInt(5), provider |-> JStr("openai")]) >>

MODELS_CACHE_TTL == 3600

\* The number of models of one page of GET /api/models
PageSize == 100

\* The models the platform lists for an API key
CatalogOf(key) == IF key \in DOMAIN catalog THEN catalog[key] ELSE <<>>

\* A page that starts one item early.
Page_Overlap(items, skip) ==
    SubSeq(items, IF skip = 0 THEN 1 ELSE skip, Min(Len(items), skip + PageSize))

\* The page of items that starts after `skip` of them
Page(items, skip) == SubSeq(items, skip + 1, Min(Len(items), skip + PageSize))

\* list_models: range(100, total, 100)
PageSkips(total) ==
    IF total <= PageSize THEN {}
    ELSE { PageSize * i : i \in 1..((total - 1) \div PageSize) }

\* _models_cache_time as at import: 0, the epoch, which is more than the ttl
\* before the origin of the clock
Epoch == 0 - MODELS_CACHE_TTL * TicksPerSecond

\* The cache test always failing: every call fetches.
ModelsCached_Never == FALSE

\* The cache test without its test of the age.
ModelsCached_Unexpiring == models_cache # <<>>

\* list_models: _models_cache and (current_time - _models_cache_time) < _MODELS_CACHE_TTL
ModelsCached ==
    /\ models_cache # <<>>
    /\ clock - models_cache_time < MODELS_CACHE_TTL * TicksPerSecond

\* list_models: the ModelInfo of every item that validates
ModelInfos(items) ==
    LET good == SelectSeq(items, LAMBDA item :
                   /\ IsDict(item)
                   /\ IsStr(DictGet(item, "name", JStr("")))
                   /\ OptionalStr(DictGet(item, "provider", None)))
    IN  [i \in 1..Len(good) |->
            [ id |-> DictGet(good[i], "name", JStr("")).str,
              name |-> DictGet(good[i], "name", JStr("")).str,
              provider |-> DictGet(good[i], "provider", None) ]]

\* len(set(m.provider for m in models if m.provider))
ProvidersCount(models) ==
    Cardinality({ models[i].provider : i \in { j \in 1..Len(models) :
                      models[j].provider \notin {None, JStr("")} } })

\* What a handler does next: it answers, it raises, or it makes a remote call.
Answer(status, body) == [kind |-> "answer", status |-> status, body |-> body]
Raise(exc, msg) == [kind |-> "raise", exc |-> exc, msg |-> msg]
Call(name) == [kind |-> "call", call |-> name]

\* jsonify({'error': message})
Error(msg) == [error |-> msg]

\* The except clauses of a handler: ValueError gives 401, any other exception
\* 500; pydantic's ValidationError and json's JSONDecodeError are ValueErrors.
Except(ep, exc, msg) ==
    IF exc = "ValueError" THEN Answer(401, Error(msg))
    ELSE IF ep = "GET /api/threads"
    THEN Answer(500, [error |-> msg, traceback |-> "traceback"])
    ELSE Answer(500, Error(msg))

\* The body of a handler's try after get_service() has returned, up to its
\* first remote call.
Handler(ep, in) ==
    CASE ep = "GET /api/assistants" ->
            \* int(request.args.get('skip', 0)), int(request.args.get('limit', 1000))
            IF ~in.ints THEN Raise("ValueError", "invalid literal for int()")
            ELSE Call("list_assistants")
      [] ep = "POST /api/assistants" ->
            \* AssistantCreate(**data)
            IF ~in.body THEN Raise("TypeError", "argument after ** must be a mapping")
            ELSE IF ~in.required THEN Raise("ValueError", "name: Field required")
            ELSE Call("create_assistant")
      [] ep = "PUT /api/assistants/{id}" ->
            IF ~in.body THEN Raise("TypeError", "argument after ** must be a mapping")
            ELSE Call("update_assistant")
      [] ep = "GET /api/memory" ->
            \* int(request.args.get('limit', 10)) of a request with a query
            IF ~in.assistant_id THEN Answer(200, [data |-> <<>>])
            ELSE IF ~in.ints THEN Raise("ValueError", "invalid literal for int()")
            ELSE Call("list_memories")
      [] ep \in {"GET /api/memory/{id}", "DELETE /api/memory/{id}"} ->
            IF ~in.assistant_id THEN Answer(400, Error("assistant_id is required"))
            ELSE Call("memory")
      [] ep = "POST /api/memory" ->
            IF ~in.body THEN Raise("AttributeError", "'NoneType' object has no attribute 'get'")
            ELSE IF ~in.assistant_id THEN Answer(400, Error("assistant_id is required"))
            ELSE IF ~in.required THEN Raise("ValueError", "content: Field required")
            ELSE Call("store_memory")
      [] ep = "POST /api/memory/search" ->
            IF ~in.body THEN Raise("AttributeError", "'NoneType' object has no attribute 'get'")
            ELSE IF ~in.assistant_id THEN Call("list_assistants")
            ELSE IF ~in.required THEN Raise("ValueError", "query: Field required")
            ELSE Call("search_memory")
      [] ep = "POST /api/threads" ->
            IF ~in.body THEN Raise("AttributeError", "'NoneType' object has no attribute 'get'")
            ELSE IF ~in.assistant_id THEN Answer(400, Error("assistant_id is required"))
            ELSE Call("create_thread")
      [] ep = "GET /api/documents" ->
            \* list_documents() without assistant_id and thread_id returns []
            Answer(200, [data |-> <<>>])
      [] ep = "POST /api/documents" ->
            IF ~in.file THEN Answer(400, Error("File is required"))
            ELSE IF ~in.required THEN Raise("ValueError", "name: Field required")
            ELSE IF ~in.assistant_id /\ ~in.thread_id
            THEN Raise("ValueError", "assistant_id or thread_id is required")
            ELSE Call("upload_document")
      [] ep = "GET /api/models" ->
            Call("list_models")
      [] ep = "GET /api/models/{id}" ->
            Answer(200, [data |-> "model"])
      [] OTHER -> Call("service")

\* A dispatch that looks at the input before it looks for the key.
Dispatch_InputFirst(key, ep, in) ==
    LET h == Handler(ep, in)
    IN  IF h.kind = "answer" /\ h.status = 400 THEN h
        ELSE IF key = "" THEN Raise("ValueError", "API key not found in session")
        ELSE h

\* A handler from its first line: get_service() raises ValueError when the
\* session holds no key.
Dispatch(key, ep, in) ==
    IF key = "" THEN Raise("ValueError", "API key not found in session")
    ELSE Handler(ep, in)

\* What a handler answers when its remote call has returned.
Success(ep) ==
    Answer(IF ep \in {"POST /api/assistants", "POST /api/memory", "POST /api/threads",
                      "POST /api/documents"} THEN 201 ELSE 200,
           IF ep = "GET /api/threads" THEN [data |-> ListThreadsResult(threads)]
           ELSE [data |-> "result"])

\* What the history keeps of a request that has its answer.
NoRequest ==
    [ ep |-> "none", status |-> 0, body |-> None, start |-> 0, failed |-> FALSE ]

\* A client that has made no request.
Quiet ==
    [ pc |-> "none", ep |-> "none", in |-> NoInput, status |-> 0, body |-> None,
      \* a count handler: the count it computes, the assistants whose worker
      \* has not completed, the time list_models read
      count |-> None, pending |-> {}, t |-> 0,
      \* the aggregate search: its query and limit, the assistants it has
      \* still to list, the memories it has found
      query |-> <<>>, limit |-> 0, todo |-> <<>>, found |-> <<>>,
      \* history: the remote and cache calls the handler made, the key the
      \* session held and the time when the request came, whether the count was
      \* computed, whether a call of its cache raised, the assistants whose
      \* worker raised, whether a POST /api/auth of the session has succeeded,
      \* and the request answered before this one
      calls |-> 0, held |-> "", start |-> 0, computed |-> FALSE, failed |-> FALSE,
      dropped |-> {}, keyed |-> FALSE, before |-> NoRequest,
      \* list_models: the pages it has requested beyond the first, and those
      \* that have completed, in the order of their completion
      skips |-> {}, order |-> <<>> ]

\* The routes of the count handlers of app/api/cache.py
CountEndpoints ==
    { "GET /api/cache/assistants-count", "GET /api/cache/memory-count",
      "GET /api/cache/models-count", "GET /api/cache/documents-count",
      "GET /api/cache/threads-count" }

\* What the history keeps of request r: the requests for counts.
Before(r) ==
    IF r.ep \in CountEndpoints
    THEN [ ep |-> r.ep, status |-> r.status, body |-> r.body, start |-> r.start,
           failed |-> r.failed ]
    ELSE NoRequest

\* Client c's request becomes r.
Becomes(c, r) == req' = [req EXCEPT ![c] = r]

\* The request has its answer.
Answered(r, a) == [r EXCEPT !.pc = "done", !.status = a.status, !.body = a.body]

\* A request of client c arrives at `ep` with input `in`.
Arrives(c, ep, in) ==
    [Quiet EXCEPT !.ep = ep, !.in = in, !.held = session, !.start = clock,
                  !.keyed = req[c].keyed, !.before = Before(req[c])]

\* A request reaches one of the handlers that start with get_service().
Request(c, ep, in) ==
    /\ req[c].pc \in {"none", "done"}
    /\ LET r == Arrives(c, ep, in)
           h == Dispatch(session, ep, in)
       IN  Becomes(c, CASE h.kind = "answer" -> Answered(r, h)
                        [] h.kind = "raise" -> Answered(r, Except(ep, h.exc, h.msg))
                        [] h.kind = "call" /\ h.call = "list_models" ->
                              IF ModelsCached THEN Answered(r, Answer(200, [data |-> models_cache]))
                              ELSE [r EXCEPT !.pc = "models_http", !.t = clock, !.calls = 1]
                        [] OTHER -> [r EXCEPT !.pc = "remote", !.calls = 1])
    /\ UNCHANGED <<session, threads, catalog, models_cache, models_cache_time>>
    /\ UNCHANGED cacheVars

\* The remote call of client c's handler returns.
RemoteReturns(c) ==
    /\ req[c].pc = "remote"
    /\ Becomes(c, Answered(req[c], Success(req[c].ep)))
    /\ UNCHANGED <<session, threads, catalog, models_cache, models_cache_time>>
    /\ UNCHANGED cacheVars

\* The remote call of client c's handler raises: an error of the SDK or of
\* the transport, or the ValueError of a body that is no JSON.
RemoteRaises(c, exc) ==
    /\ req[c].pc = "remote"
    /\ Becomes(c, Answered(req[c], Except(req[c].ep, exc, "remote call failed")))
    /\ UNCHANGED <<session, threads, catalog, models_cache, models_cache_time>>
    /\ UNCHANGED cacheVars

----------------------------------------------------------------------------
(* The count handlers of app/api/cache.py *)

\* The cache key of a count handler
CountKey(ep) ==
    CASE ep = "GET /api/cache/assistants-count" -> "assistants_count_total"
      [] ep = "GET /api/cache/memory-count" -> "memory_count_total"
      [] ep = "GET /api/cache/models-count" -> "models_count_data"
      [] ep = "GET /api/cache/documents-count" -> "documents_count_total"
      [] ep = "GET /api/cache/threads-count" -> "threads_count_total"

\* The limit the count handlers list assistants with
CountListLimit == 10000

\* service.list_assistants(skip=0, limit=10000)
ListAllAssistantsResult ==
    SubSeq(assistants, 1, Min(Len(assistants), CountListLimit))

\* d.get(k, default) of a JMap
MapGet(m, k, default) ==
    LET J == { i \in 1..Len(m.map) : m.map[i][1] = k }
    IN  IF J = {} THEN default ELSE m.map[CHOOSE i \in J : TRUE][2]

\* get_models_count's cache_data
ModelsCount(models) ==
    JMap(<< <<"count", JInt(Len(models))>>,
            <<"providers", JInt(ProvidersCount(models))>> >>)

\* The body a count handler answers with, from the value it cached or computed
CountBody(ep, value, cached) ==
    IF ep = "GET /api/cache/models-count"
    THEN [ count |-> MapGet(value, "count", JInt(0)),
           providers |-> MapGet(value, "providers", JInt(0)), cached |-> cached ]
    ELSE [ count |-> value, cached |-> cached ]

\* A count handler has computed value: cache.set(key, value, ttl=3600) on the
\* BackboardCache instance its cache.get ran on.
StoreCount(c, r, value) ==
    /\ Begin(c, [op |-> "set", key |-> CountKey(r.ep), value |-> value,
                 ttl |-> 3600], FALSE)
    /\ Becomes(c, [r EXCEPT !.pc = "cache_set", !.count = value, !.computed = TRUE,
                            !.pending = {}, !.calls = @ + 1])

\* list_models has returned models to client c's handler: the handler of
\* GET /api/models answers them; get_models_count counts them and calls
\* cache.set.
ModelsReturn(c, r, models) ==
    IF r.ep = "GET /api/models"
    THEN /\ Becomes(c, Answered(r, Answer(200, [data |-> models])))
         /\ UNCHANGED cacheVars
    ELSE /\ StoreCount(c, r, ModelsCount(models))
         /\ UNCHANGED <<clock, assistants, memories, nextId>>

\* list_models has gathered models_data: it converts the items and assigns
\* the result to _models_cache; the assignment of _models_cache_time is next.
ModelsStore(c, r, models_data) ==
    LET result == ModelInfos(models_data)
    IN  /\ models_cache' = result
        /\ Becomes(c, [r EXCEPT !.pc = "models_stamp", !.found = result,
                                !.pending = {}])

\* list_models of client c's handler: the first request returns the total and
\* the first page, or fails and list_models returns [] (ok = FALSE).  With a
\* total above 100 the other pages are submitted to the pool.
ModelsHttp(c, ok) ==
    /\ req[c].pc = "models_http"
    /\ LET r == req[c]
           items == CatalogOf(r.held)
           total == Len(items)
       IN  IF ~ok
           THEN /\ ModelsReturn(c, r, <<>>)
                /\ UNCHANGED models_cache
           ELSE IF total > PageSize
           THEN /\ Becomes(c, [r EXCEPT !.pc = "models_pages",
                                        !.found = Page(items, 0),
                                        !.pending = PageSkips(total),
                                        !.skips = PageSkips(total),
                                        !.calls = @ + Cardinality(PageSkips(total))])
                /\ UNCHANGED models_cache
                /\ UNCHANGED cacheVars
           ELSE /\ ModelsStore(c, r, Page(items, 0))
                /\ UNCHANGED cacheVars
    /\ UNCHANGED <<session, threads, catalog, models_cache_time>>

\* list_models: fetch_page(skip) completes, with the page or, when its request
\* failed, with [] (ok = FALSE); all_models_data.extend(page_data), and after
\* the last page the conversion and the assignment of _models_cache.
ModelsPage(c, skip, ok) ==
    /\ req[c].pc = "models_pages"
    /\ skip \in req[c].pending
    /\ LET r == req[c]
           page_data == IF ok THEN Page(CatalogOf(r.held), skip) ELSE <<>>
           all_models_data == r.found \o page_data
           next == [r EXCEPT !.found = all_models_data,
                             !.pending = @ \ {skip},
                             !.order = Append(@, skip),
                             !.dropped = IF ok THEN @ ELSE @ \cup {skip}]
       IN  IF next.pending # {}
           THEN Becomes(c, next) /\ UNCHANGED models_cache
           ELSE ModelsStore(c, next, all_models_data)
    /\ UNCHANGED <<session, threads, catalog, models_cache_time>>
    /\ UNCHANGED cacheVars

\* list_models: _models_cache_time = current_time, and return result
ModelsStamp(c) ==
    /\ req[c].pc = "models_stamp"
    /\ models_cache_time' = req[c].t
    /\ ModelsReturn(c, req[c], req[c].found)
    /\ UNCHANGED <<session, threads, catalog, models_cache>>

\* A request reaches a count handler: without key it answers 401, with one
\* it makes a BackboardCache and calls cache.get(key).
CountRequest(c, ep) ==
    /\ req[c].pc \in {"none", "done"}
    /\ inst[c].pc = "idle"
    /\ LET r == Arrives(c, ep, NoInput)
       IN  IF session = ""
           THEN /\ Becomes(c, Answered(r, Answer(401, Error("API key not found"))))
                /\ UNCHANGED cacheVars
           ELSE /\ Begin(c, [op |-> "get", key |-> CountKey(ep), value |-> None,
                             ttl |-> 0], TRUE)
                /\ Becomes(c, [r EXCEPT !.pc = "cache_get", !.calls = 1])
    /\ UNCHANGED <<session, threads, catalog, models_cache, models_cache_time>>

\* cache.get has returned a value: the handler answers it, cached.  A value
\* of models_count_data that is no dict has no get: AttributeError, 500.
CountHit(c) ==
    /\ req[c].pc = "cache_get"
    /\ inst[c].pc = "idle"
    /\ inst[c].ret # None
    /\ LET r == [req[c] EXCEPT !.failed = inst[c].failed]
       IN  Becomes(c, Answered(r,
              IF r.ep = "GET /api/cache/models-count" /\ DOMAIN inst[c].ret # {"map"}
              THEN Except(r.ep, "AttributeError", "object has no attribute 'get'")
              ELSE Answer(200, CountBody(r.ep, inst[c].ret, TRUE))))
    /\ UNCHANGED <<session, threads, catalog, models_cache, models_cache_time>>
    /\ UNCHANGED cacheVars

\* cache.get has returned None: the handler computes the count, up to the
\* first remote call of the computation.  list_documents() without
\* assistant and thread makes none and returns []; list_models() makes none
\* while its module cache holds.
CountMiss(c) ==
    /\ req[c].pc = "cache_get"
    /\ inst[c].pc = "idle"
    /\ inst[c].ret = None
    /\ LET r == [req[c] EXCEPT !.failed = inst[c].failed]
       IN  CASE r.ep = "GET /api/cache/documents-count" ->
                  /\ StoreCount(c, r, JInt(0))
                  /\ UNCHANGED <<clock, assistants, memories, nextId>>
             [] r.ep = "GET /api/cache/models-count" /\ ModelsCached ->
                  /\ StoreCount(c, r, ModelsCount(models_cache))
                  /\ UNCHANGED <<clock, assistants, memories, nextId>>
             [] r.ep = "GET /api/cache/models-count" /\ ~ModelsCached ->
                  /\ Becomes(c, [r EXCEPT !.pc = "models_http", !.t = clock,
                                          !.calls = @ + 1])
                  /\ UNCHANGED cacheVars
             [] r.ep = "GET /api/cache/threads-count" ->
                  /\ Becomes(c, [r EXCEPT !.pc = "count_list_threads", !.calls = @ + 1])
                  /\ UNCHANGED cacheVars
             [] OTHER ->
                  /\ Becomes(c, [r EXCEPT !.pc = "count_list_assistants", !.calls = @ + 1])
                  /\ UNCHANGED cacheVars
    /\ UNCHANGED <<session, threads, catalog, models_cache, models_cache_time>>

\* get_assistants_count, get_memory_count: service.list_assistants(skip=0,
\* limit=10000) returns.  The first counts them; the second submits one
\* fetch_memories per assistant to the pool.
CountListAssistants(c) ==
    /\ req[c].pc = "count_list_assistants"
    /\ LET r == req[c]
           l == ListAllAssistantsResult
       IN  IF r.ep = "GET /api/cache/assistants-count"
           THEN /\ StoreCount(c, r, JInt(Len(l)))
                /\ UNCHANGED <<clock, assistants, memories, nextId>>
           ELSE IF l = <<>>
           THEN /\ StoreCount(c, r, JInt(0))
                /\ UNCHANGED <<clock, assistants, memories, nextId>>
           ELSE /\ Becomes(c, [r EXCEPT !.pc = "fetch_memories", !.count = JInt(0),
                                        !.pending = { l[i].id : i \in 1..Len(l) }])
                /\ UNCHANGED cacheVars
    /\ UNCHANGED <<session, threads, catalog, models_cache, models_cache_time>>

\* A handler that keeps the result of the worker that completed last.
Total_Last(total_memories, result) == result

\* total_memories += future.result()
Total(total_memories, result) == total_memories + result

\* get_memory_count: the worker of assistant a completes, and the handler
\* adds its result to the total: the number of memories listed, or 0 when
\* service.list_memories raised (ok = FALSE).  After the last worker the
\* handler calls cache.set.
FetchMemories(c, a, ok) ==
    /\ req[c].pc = "fetch_memories"
    /\ a \in req[c].pending
    /\ LET n == IF ok THEN Len(ListMemoriesResult(a)) ELSE 0
           r == [req[c] EXCEPT !.pending = @ \ {a},
                               !.count = JInt(Total(@.int, n)),
                               !.dropped = IF ok THEN @ ELSE @ \cup {a},
                               !.calls = @ + 1]
       IN  IF r.pending = {}
           THEN /\ StoreCount(c, r, r.count)
                /\ UNCHANGED <<clock, assistants, memories, nextId>>
           ELSE /\ Becomes(c, r)
                /\ UNCHANGED cacheVars
    /\ UNCHANGED <<session, threads, catalog, models_cache, models_cache_time>>

\* get_threads_count: service.list_threads() returns.
CountListThreads(c) ==
    /\ req[c].pc = "count_list_threads"
    /\ StoreCount(c, req[c], JInt(Len(ListThreadsResult(threads))))
    /\ UNCHANGED <<clock, assistants, memories, nextId>>
    /\ UNCHANGED <<session, threads, catalog, models_cache, models_cache_time>>

\* The listing of the computation raises: the handler's except clauses answer.
CountFails(c, exc) ==
    /\ req[c].pc \in {"count_list_assistants", "count_list_threads"}
    /\ Becomes(c, Answered(req[c], Except(req[c].ep, exc, "remote call failed")))
    /\ UNCHANGED <<session, threads, catalog, models_cache, models_cache_time>>
    /\ UNCHANGED cacheVars

\* A handler that answers an error when cache.set returns False.
AfterSet_Checked(r, stored) ==
    IF stored = JBool(TRUE) THEN Answer(200, CountBody(r.ep, r.count, FALSE))
    ELSE Except(r.ep, "Exception", "cache.set failed")

\* What a count handler answers after cache.set(...) returned `stored`
AfterSet(r, stored) == Answer(200, CountBody(r.ep, r.count, FALSE))

\* cache.set has returned (its result is not looked at): the handler answers
\* the count it computed, not cached.
CountStored(c) ==
    /\ req[c].pc = "cache_set"
    /\ inst[c].pc = "idle"
    /\ LET r == [req[c] EXCEPT !.failed = @ \/ inst[c].failed]
       IN  Becomes(c, Answered(r, AfterSet(r, inst[c].ret)))
    /\ UNCHANGED <<session, threads, catalog, models_cache, models_cache_time>>
    /\ UNCHANGED cacheVars

\* The bodies of POST /api/auth: null, an object without api_key, with an
\* empty one, with a key.
AuthBodies ==
    { None, JDict(<<>>), JDict([api_key |-> JStr("")]),
      JDict([api_key |-> JStr("sk-1")]), JDict([api_key |-> JStr("sk-2")]) }

\* POST /api/auth: set_api_key.  data.get on a body that is no object raises
\* outside any try, which Flask answers with its own 500.
SetApiKey(c, data) ==
    /\ req[c].pc \in {"none", "done"}
    /\ LET r == [Arrives(c, "POST /api/auth", NoInput) EXCEPT !.in = data]
           api_key == IF IsDict(data) THEN DictGet(data, "api_key", None) ELSE None
       IN  IF ~IsDict(data)
           THEN /\ Becomes(c, Answered(r, Answer(500, "Internal Server Error")))
                /\ session' = session
           ELSE IF api_key \in {None, JStr("")}
           THEN /\ Becomes(c, Answered(r, Answer(400, Error("API key is required"))))
                /\ session' = session
           ELSE /\ Becomes(c, Answered([r EXCEPT !.keyed = TRUE],
                                        Answer(200, [success |-> TRUE])))
                /\ session' = api_key.str
    /\ UNCHANGED <<threads, catalog, models_cache, models_cache_time>>
    /\ UNCHANGED cacheVars

\* GET /api/auth/check: check_auth
CheckAuth(c) ==
    /\ req[c].pc \in {"none", "done"}
    /\ Becomes(c, Answered(Arrives(c, "GET /api/auth/check", NoInput),
                           Answer(200, [authenticated |-> session # ""])))
    /\ UNCHANGED <<session, threads, catalog, models_cache, models_cache_time>>
    /\ UNCHANGED cacheVars

----------------------------------------------------------------------------
(* Specifications *)

\* An account holding n assistants of its own and no cache holder yet.
InitCache(n) ==
    /\ clock = 0
    /\ assistants = [j \in 1..n |-> [id |-> j, name |-> "assistant"]]
    /\ memories = <<>>
    /\ nextId = n + 1
    /\ inst = [c \in Clients |-> Idle]
    /\ prev = [c \in Clients |-> NoCall]
    /\ ops = 0

\* The API keys the platform knows
ApiKeys == {"sk-1", "sk-2"}

\* A session holding key, no request made, the platform listing the thread
\* items ts, the module's models cache as at import.
InitWeb(key, ts) ==
    /\ session = key
    /\ req = [c \in Clients |-> Quiet]
    /\ threads = ts
    /\ catalog = [k \in ApiKeys |-> Catalogue]
    /\ models_cache = <<>>
    /\ models_cache_time = Epoch

\* The cache alone: no HTTP request is made.
InitWith(n) == InitCache(n) /\ InitWeb("", <<>>)

\* The numbers of assistants the account may hold at the start: none, and as
\* many as one page of the assistant listing.
AccountSizes == {0, ListLimit}

Init == \E n \in AccountSizes : InitWith(n)

\* The remote calls of client c's call in progress.
Step(c) ==
    \/ ListAssistants(c)
    \/ CreateAssistant(c)
    \/ ListMemories(c)
    \/ DeleteListMemories(c)
    \/ DeleteDeleteMemory(c)
    \/ ClearDeleteMemory(c)
    \/ StoreMemory(c)

\* One client, its calls one after the other, no remote failure.
Next ==
    \/ StartOp(1, Keys, {JInt(42)}, TtlArgs)
    \/ Step(1)
    \/ Tick

Spec == Init /\ [][Next]_vars


\* As Spec, for the round trip of values: one key, every value.
NextRT ==
    \/ StartOp(1, {"k"}, Values, TtlArgs)
    \/ Step(1)
    \/ Tick

SpecRT == InitWith(0) /\ [][NextRT]_vars

\* As Spec, with remote calls that raise.
NextFail ==
    \/ StartOp(1, {"k"}, {JInt(42)}, {1})
    \/ Step(1)
    \/ RemoteError(1)
    \/ Tick

SpecFail == InitWith(0) /\ [][NextFail]_vars

\* The scenario of two concurrent sets: clients 1 and 2 call set("k", "v1")
\* and set("k", "v2"), their remote calls interleaved in any way.
ConcurrentSet(c) ==
    /\ inst[c].op = "none"
    /\ UNCHANGED web
    /\ \E ttl \in TtlArgs :
          Begin(c, [op |-> "set", key |-> "k",
                    value |-> JStr(IF c = 1 THEN "v1" ELSE "v2"), ttl |-> ttl], TRUE)

\* Once both have returned, client 3 calls get("k").
ThenGet ==
    /\ \A c \in {1, 2} : inst[c].pc = "idle" /\ inst[c].op = "set"
    /\ inst[3].op = "none"
    /\ UNCHANGED web
    /\ Begin(3, [op |-> "get", key |-> "k", value |-> None, ttl |-> 0], TRUE)

\* Once the get has returned, client 3 calls delete("k").
ThenDelete ==
    /\ inst[3].op = "get"
    /\ UNCHANGED web
    /\ \E fresh \in BOOLEAN :
          Begin(3, [op |-> "delete", key |-> "k", value |-> None, ttl |-> 0], fresh)

NextConc ==
    \/ \E c \in {1, 2} : ConcurrentSet(c)
    \/ ThenGet
    \/ ThenDelete
    \/ \E c \in Clients :
          \/ ListAssistants(c)
          \/ CreateAssistant(c)
          \/ ListMemories(c)
          \/ DeleteListMemories(c)
          \/ DeleteDeleteMemory(c)
          \/ StoreMemory(c)
    \/ Tick

SpecConc == InitWith(0) /\ [][NextConc]_vars

----------------------------------------------------------------------------
(* Vocabulary of the properties *)

AllIdle == \A c \in Clients : inst[c].pc = "idle"

\* The ids of the assistants named bb_browser_cache.
Holders ==
    { assistants[j].id : j \in { i \in 1..Len(assistants) :
                                   assistants[i].name = CACHE_ASSISTANT_NAME } }

\* The memories of ms that are cache entries of key.
EntriesFor(ms, key) == { j \in 1..Len(ms) : Matches(ms[j], key) }

\* int(time.time()) at tick t
SecondsAt(t) == t \div TicksPerSecond

\* Client c has returned from a call of op.
Returned(c, op) == inst[c].pc = "idle" /\ inst[c].op = op

\* Client c's latest call followed its call p of op on the same key, and no
\* remote call of either raised.
Followed(c, op) ==
    /\ prev[c].op = op
    /\ prev[c].key = inst[c].key
    /\ ~prev[c].failed
    /\ ~inst[c].failed

----------------------------------------------------------------------------
(* C1: round trip *)

\* C1: a set(key, value, ttl) with ttl > 0 that returned True, followed with no
\* call in between and before ttl seconds have passed by get(key): the get
\* returns a value equal to value.
C1_RoundTrip ==
    ( /\ Returned(1, "get")
      /\ Followed(1, "set")
      /\ prev[1].ret = JBool(TRUE)
      /\ prev[1].ttl > 0
      /\ SecondsAt(inst[1].tick) - SecondsAt(prev[1].tick) < prev[1].ttl )
    => inst[1].ret = prev[1].value

\* The part of C1 the code keeps: the get returns what json.loads makes of the
\* stored text, which is the value unless the value is a string that is
\* itself JSON text.
C1_RoundTripOfNonJsonText ==
    ( /\ Returned(1, "get")
      /\ Followed(1, "set")
      /\ prev[1].ret = JBool(TRUE)
      /\ prev[1].ttl > 0
      /\ SecondsAt(inst[1].tick) - SecondsAt(prev[1].tick) < prev[1].ttl )
    => /\ inst[1].ret = Decode(Encode(prev[1].value))
       /\ (~IsStr(prev[1].value) \/ ~Parses(prev[1].value.str))
             => inst[1].ret = prev[1].value

----------------------------------------------------------------------------
(* C2: expiry *)

\* C2: after set(key, v, ttl) at time t, a get(key) at time t' returns v when
\* t' - t < ttl, and returns None when t' - t >= ttl, and after that get no
\* memory of the holder has cache_key = key.
C2_Expiry ==
    ( /\ Returned(1, "get")
      /\ Followed(1, "set")
      /\ prev[1].ret = JBool(TRUE)
      /\ prev[1].ttl > 0 )
    => IF SecondsAt(inst[1].tick) - SecondsAt(prev[1].tick) < prev[1].ttl
       THEN inst[1].ret = prev[1].value
       ELSE /\ inst[1].ret = None
            /\ EntriesFor(ListMemoriesResult(inst[1].aid), inst[1].key) = {}

\* The part of C2 the code keeps: the times of expiry.
C2_ExpiryOfDecoded ==
    ( /\ Returned(1, "get")
      /\ Followed(1, "set")
      /\ prev[1].ret = JBool(TRUE)
      /\ prev[1].ttl > 0 )
    => IF SecondsAt(inst[1].tick) - SecondsAt(prev[1].tick) < prev[1].ttl
       THEN inst[1].ret = Decode(Encode(prev[1].value))
       ELSE /\ inst[1].ret = None
            /\ EntriesFor(ListMemoriesResult(inst[1].aid), inst[1].key) = {}


----------------------------------------------------------------------------
(* C3: delete is idempotent *)

\* The case of C3: client 1 has returned from a delete(key), no remote call of
\* which raised, that began when no memory was a cache entry of key, or that
\* followed another delete(key).
C3_Case ==
    /\ Returned(1, "delete")
    /\ ~inst[1].failed
    /\ \/ EntriesFor(inst[1].m0, inst[1].key) = {}
       \/ Followed(1, "delete")

\* C3 as stated: such a delete returns True and leaves the remotely stored
\* state (the memories and the assistants) as it was.
C3_DeleteLeavesStateUnchanged ==
    C3_Case => /\ inst[1].ret = JBool(TRUE)
               /\ memories = inst[1].m0
               /\ Len(assistants) = inst[1].a0

\* C3 as amended: such a delete returns True and leaves every stored memory as
\* it was; the one remote change it can make is to create the cache holder,
\* when it finds none.
C3_DeleteLeavesMemoriesUnchanged ==
    C3_Case => /\ inst[1].ret = JBool(TRUE)
               /\ memories = inst[1].m0
               /\ Len(assistants) \in {inst[1].a0, inst[1].a0 + 1}
               /\ \A j \in (inst[1].a0 + 1)..Len(assistants) :
                      /\ assistants[j].name = CACHE_ASSISTANT_NAME
                      /\ assistants[j].id = inst[1].aid

\* A second delete(key) in a row, with an entry of another key stored.
C3_Witness ==
    /\ Returned(1, "delete")
    /\ Followed(1, "delete")
    /\ inst[1].ret = JBool(TRUE)
    /\ memories # <<>>

----------------------------------------------------------------------------
(* C4: clear_expired *)

\* C4: clear_expired deletes exactly the cache entries of the holder whose age
\* (now - cache_time) is >= their own ttl, leaves the others, and returns the
\* number it deleted.
C4_ClearExpiredExact ==
    LET r == inst[1]
        now == SecondsAt(r.tick)
        Due(m) == /\ m.aid = r.aid
                  /\ "cache_key" \in DOMAIN m.metadata
                  /\ now - m.metadata.cache_time >= m.metadata.ttl
    IN  (Returned(1, "clear_expired") /\ ~r.failed)
        => /\ memories = SelectSeq(r.m0, LAMBDA m : ~Due(m))
           /\ r.ret = JInt(Len(r.m0) - Len(memories))

\* The part of C4 the code keeps: the same of the entries whose cache_key is
\* not the empty string.
C4_ClearExpiredOfNonEmptyKeys ==
    LET r == inst[1]
        now == SecondsAt(r.tick)
        Due(m) == /\ m.aid = r.aid
                  /\ "cache_key" \in DOMAIN m.metadata
                  /\ m.metadata.cache_key # ""
                  /\ now - m.metadata.cache_time >= m.metadata.ttl
    IN  (Returned(1, "clear_expired") /\ ~r.failed)
        => /\ memories = SelectSeq(r.m0, LAMBDA m : ~Due(m))
           /\ r.ret = JInt(Len(r.m0) - Len(memories))

----------------------------------------------------------------------------
(* C8: one live entry per key *)

\* The entries of key in holder h that have not expired.
LiveEntries(h, key) ==
    { j \in 1..Len(memories) : /\ memories[j].aid = h
                               /\ Matches(memories[j], key)
                               /\ Valid(memories[j], Now, 0) }

\* C8: when the calls do not overlap and no remote call fails, after every
\* call the holder holds at most one entry per cache_key that has not expired.
C8_OneLiveEntryPerKey ==
    AllIdle => \A h \in Holders, k \in Keys : Cardinality(LiveEntries(h, k)) <= 1

\* A set has returned that replaced an entry which would still be live.
C8_Witness ==
    /\ Returned(1, "set")
    /\ inst[1].ret = JBool(TRUE)
    /\ \E j \in EntriesFor(inst[1].m0, inst[1].key) :
          /\ inst[1].m0[j].aid = inst[1].aid
          /\ Valid(inst[1].m0[j], Now, 0)
    /\ Cardinality(LiveEntries(inst[1].aid, inst[1].key)) = 1


----------------------------------------------------------------------------
(* C7: the cache holder is a singleton *)

\* C7: with calls that do not overlap, each on a fresh instance or not, and
\* whatever the number of other assistants, at most one assistant named
\* bb_browser_cache ever exists.
C7_SingleHolder == Cardinality(Holders) <= 1

\* The part of C7 the code keeps: the same while the first page of the
\* assistant listing (ListLimit assistants) reaches the holder.
C7_SingleHolderOnFirstPage ==
    (\E j \in 1..Len(ListAssistantsResult) :
        ListAssistantsResult[j].name = CACHE_ASSISTANT_NAME)
    => Cardinality(Holders) <= 1

----------------------------------------------------------------------------
(* C10: lazy expiry *)

IsEntry(m) == HasMeta(m.metadata) /\ "cache_key" \in DOMAIN m.metadata

\* Memory m is stored now and not after the step.
Leaves(m) == \A i \in 1..Len(memories') : memories'[i].id # m.id

\* Client c takes the step.
Acts(c) == inst'[c] # inst[c]

\* Time never removes an entry, and an entry that was not expired is expired
\* after a step only when the step is one of the clock.
ExpiryByClockOnly ==
    /\ clock' >= clock
    /\ clock' # clock => memories' = memories
    /\ \A j \in 1..Len(memories) :
          LET m == memories[j]
          IN  (IsEntry(m) /\ ~Leaves(m))
              => /\ \E i \in 1..Len(memories') : memories'[i] = m
                 /\ (Valid(m, Now, 0) /\ ~Valid(m, SecondsAt(clock'), 0))
                       => clock' > clock

\* C10 as stated: an entry becomes expired only by the clock, the clock alone
\* removes nothing, and an expired entry leaves the storage only in a step of
\* a get or of a clear_expired.
C10_ExpiredLeavesOnlyByGetOrClear ==
    [][ /\ ExpiryByClockOnly
        /\ \A j \in 1..Len(memories) :
              LET m == memories[j]
              IN  (IsEntry(m) /\ ~Valid(m, Now, 0) /\ Leaves(m))
                  => \E c \in Clients :
                        Acts(c) /\ inst[c].op \in {"get", "clear_expired"}
      ]_vars

\* C10 as amended: an entry becomes expired only by the clock, the clock alone
\* removes nothing, and an entry leaves the storage only by a remote delete of
\* a call on its holder: of a get of its key that found an entry of the key
\* expired, of a clear_expired that found it expired, or of the delete step of
\* a delete or a set of its key, expired or not.
C10_LazyExpiry ==
    [][ /\ ExpiryByClockOnly
        /\ \A j \in 1..Len(memories) :
              LET m == memories[j]
              IN  (IsEntry(m) /\ Leaves(m))
                  => \E c \in Clients :
                        /\ Acts(c)
                        /\ inst[c].aid = m.aid
                        /\ CASE inst[c].op = "get" ->
                                   /\ m.metadata.cache_key = inst[c].key
                                   /\ inst[c].expired # {}
                             [] inst[c].op = "clear_expired" ->
                                   ~Valid(m, inst[c].t, 0)
                             [] OTHER ->
                                   m.metadata.cache_key = inst[c].key
      ]_vars

\* A get has found the entry of its key expired, after the clock advanced, and
\* has removed it.
C10_Witness ==
    /\ Returned(1, "get")
    /\ inst[1].expired # {}
    /\ inst[1].ret = None
    /\ EntriesFor(memories, inst[1].key) = {}
    /\ \E j \in EntriesFor(inst[1].m0, inst[1].key) :
          inst[1].m0[j].metadata.cache_time < SecondsAt(inst[1].tick)


----------------------------------------------------------------------------
(* C5: no error reaches the caller *)

\* C5: whichever remote call of a cache call raises, get returns None, set
\* returns False, delete returns False and clear_expired returns 0.
C5_FailureResult ==
    (inst[1].pc = "idle" /\ inst[1].failed) => inst[1].ret = OnError(inst[1])

\* The part of C5 the code keeps: the same of every remote call but those of
\* the delete step inside set and inside get, whose failure the caller of
\* self.delete never sees.
C5_FailureResultOutsideDeleteStep ==
    (inst[1].pc = "idle" /\ inst[1].failed)
    => \/ inst[1].ret = OnError(inst[1])
       \/ inst[1].op \in {"set", "get"}

----------------------------------------------------------------------------
(* C6: two concurrent sets *)

\* The get of the scenario, once it has returned.
ScenarioGet ==
    IF inst[3].op = "get" /\ inst[3].pc = "idle" THEN Summary(inst[3])
    ELSE IF inst[3].op = "delete" THEN prev[3]
    ELSE NoCall

\* Both sets were called with no ttl and have returned True.
BothSetsReturned ==
    \A c \in {1, 2} : /\ Returned(c, "set")
                      /\ inst[c].ret = JBool(TRUE)
                      /\ inst[c].ttl = 0

\* C6: once both sets have returned, the get("k") that follows (before the
\* entries expire) returns "v1" or "v2", and the delete("k") after it leaves
\* no entry with cache_key "k" anywhere in the remote storage.
C6_ConcurrentSets ==
    BothSetsReturned
    => /\ (ScenarioGet.op = "get" /\ SecondsAt(ScenarioGet.tick) < CACHE_TTL)
             => ScenarioGet.ret \in {JStr("v1"), JStr("v2")}
       /\ Returned(3, "delete") => EntriesFor(memories, "k") = {}

\* The part of C6 the code keeps: the get returns "v1" or "v2", and the delete
\* leaves no entry of "k" in the holder it resolved.
C6_ConcurrentSetsInOneHolder ==
    BothSetsReturned
    => /\ (ScenarioGet.op = "get" /\ SecondsAt(ScenarioGet.tick) < CACHE_TTL)
             => ScenarioGet.ret \in {JStr("v1"), JStr("v2")}
       /\ Returned(3, "delete")
             => EntriesFor(ListMemoriesResult(inst[3].aid), "k") = {}

----------------------------------------------------------------------------
(* C9: get of an expired entry *)

\* C9: a get(key) that found an entry of key expired has deleted it and
\* returns None, also when the holder has several entries of the key.
C9_ExpiredGetReturnsNone ==
    \A c \in Clients :
        (Returned(c, "get") /\ ~inst[c].failed /\ inst[c].expired # {})
        => /\ inst[c].ret = None
           /\ \A j \in 1..Len(memories) : memories[j].id \notin inst[c].expired

\* The part of C9 the code keeps: the entry found expired is deleted, with
\* every other entry of the key.
C9_ExpiredGetDeletes ==
    \A c \in Clients :
        (Returned(c, "get") /\ ~inst[c].failed /\ inst[c].expired # {})
        => EntriesFor(ListMemoriesResult(inst[c].aid), inst[c].key) = {}


----------------------------------------------------------------------------
(* Specifications of the count handlers *)

\* The steps of client c's count handler between its request and its answer,
\* the remote calls of its cache among them.
CountStep(c) ==
    \/ ListAssistants(c)
    \/ CreateAssistant(c)
    \/ ListMemories(c)
    \/ DeleteListMemories(c)
    \/ DeleteDeleteMemory(c)
    \/ StoreMemory(c)
    \/ CountHit(c)
    \/ CountMiss(c)
    \/ CountListAssistants(c)
    \/ CountListThreads(c)
    \/ \E ok \in BOOLEAN : ModelsHttp(c, ok)
    \/ ModelsStamp(c)
    \/ CountStored(c)

\* The count endpoints whose computation is one listing.
ListingCounts == CountEndpoints \ {"GET /api/cache/memory-count"}

\* One session with a key asks for counts, one request after the other, on an
\* account of no or of one page of assistants; no remote call raises.
InitCount ==
    \E n \in AccountSizes : InitCache(n) /\ InitWeb("sk-1", <<ThreadPlain, ThreadBadTitle>>)

NextCount ==
    \/ ops < MaxOps /\ \E ep \in ListingCounts : CountRequest(1, ep)
    \/ CountStep(1)
    \/ Tick

SpecCount == InitCount /\ [][NextCount]_vars

\* As SpecCount on the empty account, with calls of the cache that raise.
NextCountFail ==
    \/ ops < MaxOps /\ \E ep \in ListingCounts : CountRequest(1, ep)
    \/ CountStep(1)
    \/ RemoteError(1)
    \/ Tick

InitCountFail == InitCache(0) /\ InitWeb("sk-1", <<ThreadPlain, ThreadBadTitle>>)

SpecCountFail == InitCountFail /\ [][NextCountFail]_vars

----------------------------------------------------------------------------
(* C11: a count is computed once and then answered from the cache *)

\* The cache entries of key that the platform holds, in any holder.
CountEntries(key) == { j \in 1..Len(memories) : Matches(memories[j], key) }

\* Client c's request to a count endpoint has its answer, and no call of its
\* cache raised.
CountAnswered(c) ==
    /\ req[c].pc = "done"
    /\ req[c].ep \in CountEndpoints
    /\ ~req[c].failed

\* Client c's request followed, less than 3600 whole seconds later, a request
\* to the same endpoint that computed the count and stored it.
FollowsCold(c) ==
    /\ CountAnswered(c)
    /\ req[c].before.ep = req[c].ep
    /\ req[c].before.status = 200
    /\ ~req[c].before.failed
    /\ req[c].before.body.cached = FALSE
    /\ SecondsAt(clock) - SecondsAt(req[c].before.start) < 3600

\* A request that computed the count stored it with ttl 3600 and answered it
\* not cached.
ColdStores(c) ==
    (CountAnswered(c) /\ req[c].computed) =>
        /\ req[c].status = 200
        /\ req[c].body.cached = FALSE
        /\ req[c].body.count = CountBody(req[c].ep, req[c].count, FALSE).count
        /\ \E j \in CountEntries(CountKey(req[c].ep)) :
              /\ memories[j].aid = inst[c].aid
              /\ memories[j].content = Encode(req[c].count)
              /\ memories[j].metadata.ttl = 3600

\* The request after it answers the same count, cached, and computes nothing.
WarmAnswers(c) ==
    FollowsCold(c) =>
        /\ req[c].status = 200
        /\ req[c].body.cached = TRUE
        /\ req[c].body.count = req[c].before.body.count
        /\ ~req[c].computed

\* C11: on a cold cache a count request computes the count, stores it with
\* ttl 3600 and answers {count, cached: false}; the next request within 3600
\* seconds, no cache call failing, answers the same count with cached: true
\* and computes nothing, whatever the count.
C11_CountCachedOnce == ColdStores(1) /\ WarmAnswers(1)

\* The same on an account whose first page of assistants has room for the
\* cache holder.
C11_CountCachedOnceOnFirstPage ==
    inst[1].a0 < ListLimit => (ColdStores(1) /\ WarmAnswers(1))

\* A second request answered from the cache, and one answered the count 0.
C11_Witness == FollowsCold(1) /\ req[1].body.cached = TRUE

C11_WitnessZero ==
    FollowsCold(1) /\ req[1].body.cached = TRUE /\ req[1].body.count = JInt(0)

----------------------------------------------------------------------------
(* C12: a cache that fails is a cold cache *)

\* The count of endpoint ep on the platform as it is.
CountNow(ep) ==
    CASE ep = "GET /api/cache/assistants-count" -> {Len(assistants), Len(assistants) - 1}
      [] ep = "GET /api/cache/documents-count" -> {0}
      [] ep = "GET /api/cache/threads-count" -> {Len(ListThreadsResult(threads))}
      [] ep = "GET /api/cache/models-count" -> {0, Len(ModelInfos(Catalogue))}

\* Client c's count request has its answer, and a remote call of its
\* cache.get or of its cache.set raised.
CacheFailed(c) ==
    /\ req[c].pc = "done"
    /\ req[c].ep \in CountEndpoints
    /\ req[c].failed

C12_WitnessSet == CacheFailed(1) /\ inst[1].op = "set" /\ inst[1].ret = JBool(FALSE)


----------------------------------------------------------------------------
(* C20: the fan-out of get_memory_count *)

\* An account of three assistants holding two, one and no memory, a session
\* with a key, no cache holder yet.
InitFanOut ==
    /\ clock = 0
    /\ assistants = [j \in 1..3 |-> [id |-> j, name |-> "assistant"]]
    /\ memories = << [id |-> 4, aid |-> 1, content |-> "a", metadata |-> NoMeta],
                     [id |-> 5, aid |-> 2, content |-> "b", metadata |-> NoMeta],
                     [id |-> 6, aid |-> 1, content |-> "c", metadata |-> NoMeta] >>
    /\ nextId = 7
    /\ inst = [c \in Clients |-> Idle]
    /\ prev = [c \in Clients |-> NoCall]
    /\ ops = 0
    /\ InitWeb("sk-1", <<>>)

\* The session asks for the memory count, one request after the other; the
\* workers complete in any order, and any of them may fail.
NextFanOut ==
    \/ ops < MaxOps /\ CountRequest(1, "GET /api/cache/memory-count")
    \/ ListAssistants(1)
    \/ CreateAssistant(1)
    \/ ListMemories(1)
    \/ DeleteListMemories(1)
    \/ DeleteDeleteMemory(1)
    \/ StoreMemory(1)
    \/ CountHit(1)
    \/ CountMiss(1)
    \/ CountListAssistants(1)
    \/ \E a \in req[1].pending : \E ok \in BOOLEAN : FetchMemories(1, a, ok)
    \/ CountFails(1, "Exception")
    \/ CountStored(1)
    \/ Tick

SpecFanOut == InitFanOut /\ [][NextFanOut]_vars

\* The number of memories the platform holds of the assistants of S.
RECURSIVE MemoriesOf(_)
MemoriesOf(S) ==
    IF S = {} THEN 0
    ELSE LET a == CHOOSE x \in S : TRUE
         IN  Len(ListMemoriesResult(a)) + MemoriesOf(S \ {a})

\* The assistants the platform lists.
Listed == { assistants[j].id : j \in 1..Len(assistants) }

\* Client c's memory count is computed, and its cache.set has made no remote
\* call yet: the platform is as the workers saw it.
FanOutDone(c) ==
    /\ req[c].ep = "GET /api/cache/memory-count"
    /\ req[c].pc = "cache_set"
    /\ inst[c].pc = "d_list_memories"

\* C20: the memory count is the sum, over every assistant listed, of the
\* number of memories of each assistant whose listing succeeded; a failing
\* listing contributes 0 and does not abort the count; the sum is the same
\* for every order in which the workers complete; and the handler answers it.
C20_FanOutSum ==
    /\ FanOutDone(1) => req[1].count = JInt(MemoriesOf(Listed \ req[1].dropped))
    /\ (req[1].pc = "done" /\ req[1].ep = "GET /api/cache/memory-count"
          /\ req[1].computed) =>
             /\ req[1].status = 200
             /\ req[1].body = [count |-> req[1].count, cached |-> FALSE]

\* A count in which one listing failed and the others counted memories.
C20_Witness ==
    /\ FanOutDone(1)
    /\ req[1].dropped # {}
    /\ req[1].count.int > 0


----------------------------------------------------------------------------
(* Specification of the HTTP layer *)

\* A browser session that holds no key yet.
InitHttp == InitCache(0) /\ InitWeb("", <<ThreadPlain>>)

\* The exceptions a remote call of a handler raises: an error of the SDK or
\* of the transport, and the ValueError of an answer that is no JSON.
RemoteExceptions == {"Exception", "ValueError"}

\* The session posts keys, asks whether it is authenticated, and makes
\* requests of every route with every input, one after the other; it asks
\* for counts while it holds no key.
NextHttp ==
    \/ \E data \in AuthBodies : SetApiKey(1, data)
    \/ CheckAuth(1)
    \/ \E ep \in ServiceEndpoints : \E in \in Inputs : Request(1, ep, in)
    \/ RemoteReturns(1)
    \/ \E exc \in RemoteExceptions : RemoteRaises(1, exc)
    \/ \E ok \in BOOLEAN : ModelsHttp(1, ok)
    \/ ModelsStamp(1)
    \/ session = "" /\ \E ep \in CountEndpoints : CountRequest(1, ep)

SpecHttp == InitHttp /\ [][NextHttp]_vars

\* Client c's request to a handler of the API has its answer.
Done(c) == req[c].pc = "done" /\ req[c].ep \in ServiceEndpoints \cup CountEndpoints

----------------------------------------------------------------------------
(* C13: the status of an error *)

\* The malformed inputs the handlers are to answer 400: no name on
\* POST /api/assistants, neither assistant_id nor thread_id on an upload,
\* skip or limit that is no integer.
Malformed(ep, in) ==
    \/ ep = "POST /api/assistants" /\ in.body /\ ~in.required
    \/ ep = "POST /api/documents" /\ in.file /\ in.required
          /\ ~in.assistant_id /\ ~in.thread_id
    \/ ep \in {"GET /api/assistants", "GET /api/memory"} /\ in.assistant_id /\ ~in.ints

\* C13: every error answer has the body {error: message}; 401 is answered
\* only when the credentials are missing, 400 for malformed input (no name on
\* POST /api/assistants, no assistant_id and thread_id on a document upload,
\* skip or limit that is no integer), 500 for every other failure.
C13_ErrorStatus ==
    Done(1) =>
        /\ req[1].status >= 400 => DOMAIN req[1].body = {"error"}
        /\ req[1].status = 401 => req[1].held = ""
        /\ (req[1].held # "" /\ Malformed(req[1].ep, req[1].in)) => req[1].status = 400

\* What holds of the errors: a request without key is answered 401; outside
\* GET /api/threads an error body is {error: message}; the inputs the
\* handlers test themselves are answered 400.
C13_ErrorStatusOfTested ==
    Done(1) =>
        /\ req[1].held = "" => req[1].status = 401
        /\ (req[1].status >= 400 /\ req[1].ep # "GET /api/threads") =>
              DOMAIN req[1].body = {"error"}
        /\ (req[1].held # "" /\ req[1].ep = "POST /api/documents" /\ ~req[1].in.file) =>
              req[1].status = 400

----------------------------------------------------------------------------
(* C14: no key, no service *)

\* C14: while the session holds no API key, every endpoint under
\* /api/assistants, /api/threads, /api/memory, /api/documents, /api/models
\* and /api/cache answers 401 with an {error} body and makes no remote call,
\* whatever the parameters: the 401 comes before any 400.
C14_NoKeyIs401 ==
    (Done(1) /\ req[1].held = "") =>
        /\ req[1].status = 401
        /\ DOMAIN req[1].body = {"error"}
        /\ req[1].calls = 0

\* A request without key whose input alone would be answered 400.
C14_Witness ==
    /\ Done(1)
    /\ req[1].held = ""
    /\ req[1].ep = "POST /api/threads"
    /\ ~req[1].in.assistant_id
    /\ req[1].in.body

----------------------------------------------------------------------------
(* C15: the session's key *)

\* Client c's POST /api/auth, its GET /api/auth/check, has its answer.
Posted(c) == req[c].pc = "done" /\ req[c].ep = "POST /api/auth"
Checked(c) == req[c].pc = "done" /\ req[c].ep = "GET /api/auth/check"

\* The body of a POST /api/auth has no api_key, or an empty one.
NoApiKey(data) == ~IsDict(data) \/ DictGet(data, "api_key", None) \in {None, JStr("")}

\* GET /api/auth/check answers authenticated: true exactly when a POST
\* /api/auth of the session has succeeded.
CheckTellsKeyed ==
    Checked(1) => (req[1].body.authenticated <=> req[1].keyed)

\* A POST that succeeds had a key and makes it the session's.
PostReplaces ==
    (Posted(1) /\ req[1].status = 200) =>
        /\ ~NoApiKey(req[1].in)
        /\ session = req[1].in.dict.api_key.str

\* C15: GET /api/auth/check answers authenticated: true exactly when an
\* earlier POST /api/auth with a non-empty api_key succeeded in the session;
\* a POST with a missing or empty api_key answers 400 and leaves the
\* session's key unchanged; a successful POST replaces the key.
C15_SessionKey ==
    /\ CheckTellsKeyed
    /\ PostReplaces
    /\ (Posted(1) /\ NoApiKey(req[1].in)) =>
          (req[1].status = 400 /\ session = req[1].held)

\* The same for the bodies that are JSON objects; any other body leaves the
\* session's key unchanged too.
C15_SessionKeyOfObjects ==
    /\ CheckTellsKeyed
    /\ PostReplaces
    /\ (Posted(1) /\ NoApiKey(req[1].in)) =>
          /\ session = req[1].held
          /\ IsDict(req[1].in) => req[1].status = 400

----------------------------------------------------------------------------
(* C16: assistant_id is required *)

\* The routes that are to require assistant_id.
NeedAssistant ==
    { "GET /api/memory", "POST /api/memory", "GET /api/memory/{id}",
      "DELETE /api/memory/{id}", "POST /api/threads" }

\* Client c's authenticated request came without assistant_id, its input
\* being well formed otherwise.
WithoutAssistant(c) ==
    /\ req[c].pc \in {"remote", "done"}
    /\ req[c].held # ""
    /\ req[c].in = [NoInput EXCEPT !.assistant_id = FALSE]

\* C16: authenticated, GET /api/memory, POST /api/memory, GET and DELETE
\* /api/memory/{id} and POST /api/threads without assistant_id answer 400 and
\* make no remote call; only POST /api/memory/search goes on without it.
C16_AssistantRequired ==
    /\ (WithoutAssistant(1) /\ req[1].ep \in NeedAssistant) =>
          /\ req[1].pc = "done"
          /\ req[1].status = 400
          /\ req[1].calls = 0
    /\ (WithoutAssistant(1) /\ req[1].ep = "POST /api/memory/search") =>
          ~(req[1].pc = "done" /\ req[1].status = 400)

\* The same of the routes other than GET /api/memory, which makes no remote
\* call either.
C16_AssistantRequiredButList ==
    /\ (WithoutAssistant(1) /\ req[1].ep \in NeedAssistant \ {"GET /api/memory"}) =>
          /\ req[1].pc = "done"
          /\ req[1].status = 400
          /\ req[1].calls = 0
    /\ (WithoutAssistant(1) /\ req[1].ep = "GET /api/memory") =>
          /\ req[1].pc = "done"
          /\ req[1].calls = 0
    /\ (WithoutAssistant(1) /\ req[1].ep = "POST /api/memory/search") =>
          ~(req[1].pc = "done" /\ req[1].status = 400)


----------------------------------------------------------------------------
(* Specification of the thread listing *)

\* The platform lists any of the thread listings; the session holds a key.
InitThreads == \E ts \in ThreadLists : InitCache(0) /\ InitWeb("sk-1", ts)

\* The session asks for the threads, again and again.
NextThreads ==
    \/ Request(1, "GET /api/threads", NoInput)
    \/ RemoteReturns(1)
    \/ \E exc \in RemoteExceptions : RemoteRaises(1, exc)

SpecThreads == InitThreads /\ [][NextThreads]_vars

\* list_threads has returned, and the handler has answered its threads.
Listing == req[1].pc = "done" /\ req[1].ep = "GET /api/threads" /\ req[1].status = 200

\* The message payloads of a thread item that are JSON objects.
Payloads(item) ==
    IF IsDict(item) /\ DictHas(item, "messages") /\ IsList(item.dict.messages)
    THEN SelectSeq(item.dict.messages.list, IsDict)
    ELSE <<>>

\* The contents of payloads ps are those of messages ms, one by one.
SameContents(ps, ms) ==
    /\ Len(ms) = Len(ps)
    /\ \A j \in 1..Len(ps) : ms[j].content = DictGet(ps[j], "content", JStr(""))

----------------------------------------------------------------------------
(* C18: the role of a message *)

\* role is the string the payload's role is to become.
RoleAsClaimed(payload, role) ==
    /\ IsStr(role)
    /\ ~DictHas(payload, "role") => role = JStr("user")
    /\ (DictHas(payload, "role") /\ IsInt(payload.dict.role)) =>
          role = JStr(ToString(payload.dict.role.int))
    /\ (DictHas(payload, "role") /\ IsStr(payload.dict.role)) => role = payload.dict.role

\* The thread items listed that carry an id and a list of messages.
WithMessages ==
    { i \in 1..Len(threads) :
        /\ IsDict(threads[i])
        /\ DictHas(threads[i], "thread_id")
        /\ DictHas(threads[i], "messages")
        /\ IsList(threads[i].dict.messages) }

\* C18: a message's role is always a string: an absent role becomes "user",
\* the number 123 becomes "123", a string stays; and no message is rejected
\* because of its role, by Message(**data) or by the conversion of a thread.
C18_RoleIsString ==
    /\ \A i \in WithMessages : \A j \in 1..Len(Payloads(threads[i])) :
          LET made == MessageInit(Payloads(threads[i])[j])
          IN  made.ok /\ RoleAsClaimed(Payloads(threads[i])[j], made.message.role)
    /\ Listing =>
          \A k \in 1..Len(req[1].body.data) : \A i \in WithMessages :
              LET t == req[1].body.data[k]
                  ps == Payloads(threads[i])
              IN  t.id = JStr(PyStr(threads[i].dict.thread_id)) =>
                     /\ t.messages # None
                     /\ Len(t.messages.list) = Len(ps)
                     /\ \A j \in 1..Len(ps) : RoleAsClaimed(ps[j], t.messages.list[j].role)

\* The listing of a thread whose messages have the roles 123, none and
\* "tool" has been answered.
C18_Witness ==
    /\ Listing
    /\ \E i \in 1..Len(threads) : threads[i] = ThreadRoles
    /\ \E k \in 1..Len(req[1].body.data) : req[1].body.data[k].id = JStr("t2")

----------------------------------------------------------------------------
(* C19: list_threads and malformed items *)

\* A well-formed item: an object with a string id, a title and messages
\* that Thread accepts.
WellFormed(item) ==
    /\ IsDict(item)
    /\ DictHas(item, "thread_id") /\ IsStr(item.dict.thread_id)
    /\ OptionalStr(DictGet(item, "title", None))
    /\ DictHas(item, "messages") =>
          /\ IsList(item.dict.messages)
          /\ \A j \in 1..Len(item.dict.messages.list) : IsDict(item.dict.messages.list[j])

\* Thread t is the thread of the well-formed item.
Faithful(item, t) ==
    /\ t.id = item.dict.thread_id
    /\ t.title = DictGet(item, "title", None)
    /\ IF DictHas(item, "messages")
       THEN t.messages # None /\ SameContents(Payloads(item), t.messages.list)
       ELSE t.messages = None

\* Thread t is what is left of the malformed item: it has no message, or
\* the messages of the item that are objects.
Degraded(item, t) ==
    \/ t.messages = None
    \/ t.messages.list = <<>>
    \/ SameContents(Payloads(item), t.messages.list)

\* The threads `out` are those of `items`, in their order: one for every
\* well-formed item, one or none for every malformed item.
RECURSIVE Aligned(_, _)
Aligned(items, out) ==
    IF items = <<>> THEN out = <<>>
    ELSE IF WellFormed(Head(items))
    THEN /\ out # <<>>
         /\ Faithful(Head(items), Head(out))
         /\ Aligned(Tail(items), Tail(out))
    ELSE \/ /\ out # <<>>
            /\ Degraded(Head(items), Head(out))
            /\ Aligned(Tail(items), Tail(out))
         \/ Aligned(Tail(items), out)

\* C19: list_threads never aborts on a malformed item: once the platform has
\* answered, the handler answers 200 with one Thread for every well-formed
\* item, and every malformed item appears with its bad messages dropped or
\* without messages, or is dropped alone.
C19_MalformedItems ==
    /\ (req[1].pc = "done" /\ req[1].ep = "GET /api/threads" /\ req[1].status # 200) =>
          req[1].body.error = "remote call failed"
    /\ Listing => Aligned(threads, req[1].body.data)

\* A listing of a malformed item that is dropped and a well-formed item
\* with the roles 123, none and "tool", which is kept.
C19_Witness ==
    /\ Listing
    /\ threads = <<ThreadBadTitle, ThreadRoles>>
    /\ Len(req[1].body.data) = 1


----------------------------------------------------------------------------
(* The aggregate search: POST /api/memory/search without assistant_id *)

\* The characters of the texts that the memories of the model hold.
Chars(text) ==
    CASE text = "Tea" -> <<"T", "e", "a">>
      [] text = "tea" -> <<"t", "e", "a">>
      [] text = "eat" -> <<"e", "a", "t">>
      [] text = "TEAM" -> <<"T", "E", "A", "M">>
      [] text = "x" -> <<"x">>

\* str.lower()
LowerChar(ch) ==
    CASE ch = "T" -> "t" [] ch = "E" -> "e" [] ch = "A" -> "a" [] ch = "M" -> "m"
      [] ch = "X" -> "x" [] OTHER -> ch
Lower(cs) == [i \in 1..Len(cs) |-> LowerChar(cs[i])]

\* q in cs
Contains(q, cs) ==
    \E i \in 0..(Len(cs) - Len(q)) : SubSeq(cs, i + 1, i + Len(q)) = q

\* The queries of the model, and the limits: 50 is that of a request
\* without limit.
Queries == { <<>>, <<"t", "e">>, <<"E", "A">>, <<"X">>, <<"e", "a", "t", "s">> }
SearchLimit == 50
Limits == {0, 1, 2, SearchLimit}

\* A search that goes through every assistant.
SearchAssistants_All(l) == l

\* assistants = [a for a in assistants if a.name != cache_assistant_name]
SearchAssistants(l) == SelectSeq(l, LAMBDA a : a.name # "bb_browser_cache")

\* memory.model_dump() with assistant_id and assistant_name
SearchResult(m, a) ==
    [ id |-> m.id, content |-> m.content, assistant_id |-> a.id,
      assistant_name |-> a.name ]

\* The loop over the memories ms of assistant a, all_memories being acc.
RECURSIVE ScanMemories(_, _, _, _, _)
ScanMemories(ms, a, acc, query, limit) ==
    IF ms = <<>> THEN acc
    ELSE IF Contains(query, Lower(Chars(Head(ms).content)))
    THEN LET all_memories == Append(acc, SearchResult(Head(ms), a))
         IN  IF Len(all_memories) >= limit THEN all_memories
             ELSE ScanMemories(Tail(ms), a, all_memories, query, limit)
    ELSE ScanMemories(Tail(ms), a, acc, query, limit)

\* jsonify({'data': all_memories[:limit]})
SearchAnswer(all_memories, limit) ==
    Answer(200, [data |-> SubSeq(all_memories, 1, Min(Len(all_memories), limit))])

\* A search without assistant_id arrives: get_service(), then
\* service.list_assistants(skip=0, limit=10000).
SearchRequest(c, query, limit) ==
    /\ req[c].pc \in {"none", "done"}
    /\ LET ep == "POST /api/memory/search"
           in == [NoInput EXCEPT !.assistant_id = FALSE]
           r == [Arrives(c, ep, in) EXCEPT !.query = query, !.limit = limit]
           h == Dispatch(session, ep, in)
       IN  Becomes(c, IF h.kind = "raise" THEN Answered(r, Except(ep, h.exc, h.msg))
                      ELSE [r EXCEPT !.pc = "search_list_assistants", !.calls = 1])
    /\ UNCHANGED <<session, threads, catalog, models_cache, models_cache_time>>
    /\ UNCHANGED cacheVars

\* The listing of the assistants returns: the cache holders are left out,
\* the query is made lower case, and the first assistant's memories are
\* asked for.
SearchListAssistants(c) ==
    /\ req[c].pc = "search_list_assistants"
    /\ LET l == SearchAssistants(ListAllAssistantsResult)
           r == [req[c] EXCEPT !.todo = l, !.query = Lower(@)]
       IN  Becomes(c, IF l = <<>> THEN Answered(r, SearchAnswer(<<>>, r.limit))
                      ELSE [r EXCEPT !.pc = "search_list_memories", !.calls = @ + 1])
    /\ UNCHANGED <<session, threads, catalog, models_cache, models_cache_time>>
    /\ UNCHANGED cacheVars

\* The listing of the assistants raises.
SearchFails(c, exc) ==
    /\ req[c].pc = "search_list_assistants"
    /\ Becomes(c, Answered(req[c], Except(req[c].ep, exc, "remote call failed")))
    /\ UNCHANGED <<session, threads, catalog, models_cache, models_cache_time>>
    /\ UNCHANGED cacheVars

\* service.list_memories(assistant.id) of the next assistant returns, and
\* its memories are gone through; or it raises (ok = FALSE) and the loop
\* continues.  The loop ends at the limit or after the last assistant.
SearchListMemories(c, ok) ==
    /\ req[c].pc = "search_list_memories"
    /\ LET a == Head(req[c].todo)
           all_memories == IF ok THEN ScanMemories(ListMemoriesResult(a.id), a,
                                                   req[c].found, req[c].query, req[c].limit)
                           ELSE req[c].found
           r == [req[c] EXCEPT !.found = all_memories, !.todo = Tail(@),
                               !.dropped = IF ok THEN @ ELSE @ \cup {a.id}]
       IN  Becomes(c, IF (ok /\ Len(all_memories) >= r.limit) \/ r.todo = <<>>
                      THEN Answered(r, SearchAnswer(all_memories, r.limit))
                      ELSE [r EXCEPT !.calls = @ + 1])
    /\ UNCHANGED <<session, threads, catalog, models_cache, models_cache_time>>
    /\ UNCHANGED cacheVars

\* An account of two assistants with memories and, between them, the cache
\* holder with an entry; the session holds a key.
InitSearch ==
    /\ clock = 0
    /\ assistants = << [id |-> 1, name |-> "Alpha"],
                       [id |-> 2, name |-> CACHE_ASSISTANT_NAME],
                       [id |-> 3, name |-> "Beta"] >>
    /\ memories =
          << [id |-> 4, aid |-> 1, content |-> "Tea", metadata |-> NoMeta],
             [id |-> 5, aid |-> 2, content |-> "tea",
              metadata |-> [cache_key |-> "k", cache_time |-> 0, ttl |-> 3600]],
             [id |-> 6, aid |-> 3, content |-> "eat", metadata |-> NoMeta],
             [id |-> 7, aid |-> 1, content |-> "x", metadata |-> NoMeta],
             [id |-> 8, aid |-> 3, content |-> "TEAM", metadata |-> NoMeta] >>
    /\ nextId = 9
    /\ inst = [c \in Clients |-> Idle]
    /\ prev = [c \in Clients |-> NoCall]
    /\ ops = 0
    /\ InitWeb("sk-1", <<>>)

\* The session searches, one request after the other; any listing may fail.
NextSearch ==
    \/ \E query \in Queries : \E limit \in Limits : SearchRequest(1, query, limit)
    \/ SearchListAssistants(1)
    \/ \E exc \in RemoteExceptions : SearchFails(1, exc)
    \/ \E ok \in BOOLEAN : SearchListMemories(1, ok)

SpecSearch == InitSearch /\ [][NextSearch]_vars

----------------------------------------------------------------------------
(* C17: what the aggregate search returns *)

\* The aggregate search of client 1 has its answer, and its results.
Searched ==
    /\ req[1].pc = "done"
    /\ req[1].ep = "POST /api/memory/search"
    /\ req[1].status = 200
Results == req[1].body.data

\* The assistant of id a, as the platform lists it.
AssistantOf(a) == assistants[CHOOSE j \in 1..Len(assistants) : assistants[j].id = a]

\* C17: the aggregate search never returns a memory stored under an
\* assistant named bb_browser_cache; it returns at most `limit` results, each
\* containing the query case-insensitively and annotated with the id and the
\* name of its assistant; an assistant whose listing fails is skipped, and
\* the search goes on.
C17_AggregateSearch ==
    /\ (req[1].pc = "done" /\ req[1].ep = "POST /api/memory/search"
          /\ req[1].dropped # {}) => req[1].status = 200
    /\ Searched =>
          /\ Len(Results) <= req[1].limit
          /\ \A k \in 1..Len(Results) :
                /\ Results[k].assistant_name # CACHE_ASSISTANT_NAME
                /\ Results[k].assistant_id \notin Holders
                /\ Results[k].assistant_id \notin req[1].dropped
                /\ Contains(Lower(req[1].query), Lower(Chars(Results[k].content)))
                /\ \E j \in 1..Len(memories) :
                      /\ memories[j].id = Results[k].id
                      /\ memories[j].content = Results[k].content
                      /\ memories[j].aid = Results[k].assistant_id
                      /\ memories[j].aid \notin Holders
                      /\ AssistantOf(memories[j].aid).name = Results[k].assistant_name

\* A search that skipped an assistant whose listing failed and returned a
\* memory of another.
C17_Witness ==
    /\ Searched
    /\ req[1].dropped # {}
    /\ Len(Results) >= 1

----------------------------------------------------------------------------
(* C24: the memories a cache call leaves alone *)

\* The holder exists and holds memories the cache did not write: one without
\* metadata, one whose metadata has no cache_key, and an entry of a key no
\* call of the model uses, which expires after one second.
InitFrame ==
    /\ clock = 0
    /\ assistants = << [id |-> 1, name |-> CACHE_ASSISTANT_NAME] >>
    /\ memories =
          << [id |-> 2, aid |-> 1, content |-> "note", metadata |-> NoMeta],
             [id |-> 3, aid |-> 1, content |-> "tagged",
              metadata |-> [source |-> "user"]],
             [id |-> 4, aid |-> 1, content |-> "7",
              metadata |-> [cache_key |-> "other", cache_time |-> 0, ttl |-> 1]] >>
    /\ nextId = 5
    /\ inst = [c \in Clients |-> Idle]
    /\ prev = [c \in Clients |-> NoCall]
    /\ ops = 0
    /\ InitWeb("", <<>>)

\* Client 2 calls clear_expired.
Sweep ==
    /\ ops < MaxOps
    /\ UNCHANGED web
    /\ Begin(2, [op |-> "clear_expired", key |-> "", value |-> None, ttl |-> 0], FALSE)

\* Client 1's calls one after the other, client 2's sweeps overlapping them
\* in any way, no remote failure.
NextFrame ==
    \/ StartOp(1, {"k"}, {JInt(42)}, {1})
    \/ Sweep
    \/ \E c \in {1, 2} :
          \/ ListAssistants(c)
          \/ ListMemories(c)
          \/ DeleteListMemories(c)
          \/ DeleteDeleteMemory(c)
          \/ ClearDeleteMemory(c)
          \/ StoreMemory(c)
    \/ Tick

SpecFrame == InitFrame /\ [][NextFrame]_vars

\* The memories of the start that no call may touch but clear_expired, and
\* those not even clear_expired may touch.
Foreign == { j \in 1..Len(memories) : ~IsEntry(memories[j]) }
OtherKey == { j \in 1..Len(memories) : Matches(memories[j], "other") }

\* C24: a memory that a step deletes or modifies is, when the step is one of
\* get(k), set(k, ...) or delete(k), an entry whose cache_key is k, and when
\* it is one of clear_expired, a memory with cache_key metadata.
C24_Frame ==
    [][ \A j \in 1..Len(memories) :
           LET m == memories[j]
           IN  (\A i \in 1..Len(memories') : memories'[i] # m)
               => \E c \in Clients :
                     /\ Acts(c)
                     /\ IF inst[c].op = "clear_expired" THEN IsEntry(m)
                        ELSE Matches(m, inst[c].key)
      ]_vars

\* A delete("k") has removed the entry of "k" while the entry of the other
\* key was expired, and that entry and the memories without cache_key are
\* still stored.
C24_Witness ==
    /\ Returned(1, "delete")
    /\ inst[1].key = "k"
    /\ EntriesFor(inst[1].m0, "k") # {}
    /\ EntriesFor(memories, "k") = {}
    /\ Cardinality(Foreign) = 2
    /\ \E j \in OtherKey : ~Valid(memories[j], SecondsAt(inst[1].tick), 0)

----------------------------------------------------------------------------
(* C25: a get that found an old entry expired, concurrent with a set *)

\* The holder holds an entry of "k" written at second 0 with a ttl of one
\* second.
InitRace ==
    /\ clock = 0
    /\ assistants = << [id |-> 1, name |-> CACHE_ASSISTANT_NAME] >>
    /\ memories =
          << [id |-> 2, aid |-> 1, content |-> "\"v0\"",
              metadata |-> [cache_key |-> "k", cache_time |-> 0, ttl |-> 1]] >>
    /\ nextId = 3
    /\ inst = [c \in Clients |-> Idle]
    /\ prev = [c \in Clients |-> NoCall]
    /\ ops = 0
    /\ InitWeb("", <<>>)

\* Client 1 calls get("k").
RacingGet ==
    /\ inst[1].op = "none"
    /\ UNCHANGED web
    /\ Begin(1, [op |-> "get", key |-> "k", value |-> None, ttl |-> 0], TRUE)

\* Client 2 calls set("k", "v1").
RacingSet ==
    /\ inst[2].op = "none"
    /\ UNCHANGED web
    /\ \E ttl \in TtlArgs :
          Begin(2, [op |-> "set", key |-> "k", value |-> JStr("v1"), ttl |-> ttl], TRUE)

\* Once the set has returned, client 3 calls get("k").
LaterGet ==
    /\ Returned(2, "set")
    /\ inst[3].op = "none"
    /\ UNCHANGED web
    /\ Begin(3, [op |-> "get", key |-> "k", value |-> None, ttl |-> 0], TRUE)

NextRace ==
    \/ RacingGet
    \/ RacingSet
    \/ LaterGet
    \/ \E c \in Clients :
          \/ ListAssistants(c)
          \/ ListMemories(c)
          \/ DeleteListMemories(c)
          \/ DeleteDeleteMemory(c)
          \/ StoreMemory(c)
    \/ Tick

SpecRace == InitRace /\ [][NextRace]_vars

\* The ttl the set of client c stored, and the second it stored as cache_time.
StoredTtl(c) == IF inst[c].ttl # 0 THEN inst[c].ttl ELSE CACHE_TTL
StoredAt(c) == SecondsAt(inst[c].tick)

\* C25: a get("k") called after set("k", "v1") returned True, no other set or
\* delete of "k" being called, and returning before the ttl has elapsed,
\* returns "v1", whatever a get("k") concurrent with the set does.
C25_GetKeepsLiveValue ==
    ( /\ Returned(2, "set") /\ inst[2].ret = JBool(TRUE)
      /\ Returned(3, "get")
      /\ Now - StoredAt(2) < StoredTtl(2) )
    => inst[3].ret = JStr("v1")

----------------------------------------------------------------------------
(* C26: the entries of a key after a set *)

\* The entries of key stored under holder h.
HeldFor(h, key) ==
    { j \in EntriesFor(memories, key) : memories[j].aid = h }

\* The holder of client c's set holds one entry of its key, the one the set
\* wrote.
OneEntryWritten(c) ==
    \E j \in 1..Len(memories) :
       /\ HeldFor(inst[c].aid, inst[c].key) = {j}
       /\ memories[j].content = Encode(inst[c].value)
       /\ memories[j].metadata.cache_time = StoredAt(c)
       /\ memories[j].metadata.ttl = StoredTtl(c)

\* C26: when set(key, value) has returned True, the holder holds exactly one
\* entry with cache_key == key, the one just written, whichever remote call
\* of the set's delete step raised.
C26_SetLeavesOneEntry ==
    (Returned(1, "set") /\ inst[1].ret = JBool(TRUE)) => OneEntryWritten(1)

\* The part of C26 the code keeps: the same of a set none of whose remote
\* calls raised.
C26_SetLeavesOneEntryUnfailed ==
    (Returned(1, "set") /\ inst[1].ret = JBool(TRUE) /\ ~inst[1].failed)
    => OneEntryWritten(1)

----------------------------------------------------------------------------
(* C27: a set whose store fails *)

\* The only remote call of call r that raised is store_memory: the delete
\* step before it succeeded.
StoreFailed(r) == r.at = {"store_memory"}

\* C27: a set(k, v) whose store_memory raised after its delete step succeeded
\* returns False and leaves no entry of k, neither the one k held before
\* nor a new one; a get(k) that follows it returns None.
C27_FailedStoreLosesEntry ==
    /\ (Returned(1, "set") /\ StoreFailed(inst[1]))
          => /\ inst[1].ret = JBool(FALSE)
             /\ EntriesFor(memories, inst[1].key) = {}
    /\ ( /\ Returned(1, "get")
         /\ prev[1].op = "set"
         /\ prev[1].key = inst[1].key
         /\ StoreFailed(prev[1]) )
          => inst[1].ret = None

\* A set of a key that held an entry has returned after its store_memory
\* raised.
C27_Witness ==
    /\ Returned(1, "set")
    /\ StoreFailed(inst[1])
    /\ EntriesFor(inst[1].m0, inst[1].key) # {}

\* A get has returned that followed such a set.
C27_WitnessGet ==
    /\ Returned(1, "get")
    /\ ~inst[1].failed
    /\ prev[1].op = "set"
    /\ StoreFailed(prev[1])

----------------------------------------------------------------------------
(* C28: the ttl set stores and the ttl get uses *)

\* The ttl arguments of the calls; 0 stands for an omitted, None or 0 ttl.
SetTtls == {0, 1, -1}
GetTtls == {0, 1, 2 * CACHE_TTL}

\* The holder holds an entry of "n" whose metadata carries no ttl.
InitTtl ==
    /\ clock = 0
    /\ assistants = << [id |-> 1, name |-> CACHE_ASSISTANT_NAME] >>
    /\ memories =
          << [id |-> 2, aid |-> 1, content |-> "7",
              metadata |-> [cache_key |-> "n", cache_time |-> 0]] >>
    /\ nextId = 3
    /\ inst = [c \in Clients |-> Idle]
    /\ prev = [c \in Clients |-> NoCall]
    /\ ops = 0
    /\ InitWeb("", <<>>)

\* The caller calls set("k", 42, ttl).
SetTtl ==
    /\ ops < MaxOps
    /\ UNCHANGED web
    /\ \E ttl \in SetTtls :
          Begin(1, [op |-> "set", key |-> "k", value |-> JInt(42), ttl |-> ttl], FALSE)

\* The caller calls get(key, ttl).
GetTtl ==
    /\ ops < MaxOps
    /\ UNCHANGED web
    /\ \E key \in {"k", "n"} :
          \E ttl \in GetTtls :
             Begin(1, [op |-> "get", key |-> key, value |-> None, ttl |-> ttl], FALSE)

NextTtl ==
    \/ SetTtl
    \/ GetTtl
    \/ ListAssistants(1)
    \/ ListMemories(1)
    \/ DeleteListMemories(1)
    \/ DeleteDeleteMemory(1)
    \/ StoreMemory(1)
    \/ Tick

SpecTtl == InitTtl /\ [][NextTtl]_vars

\* The ttl by which get(key, ttl) judges entry m: the one m carries, the
\* argument when m carries none, 3600 when the argument is absent too.
JudgedBy(m, ttl) ==
    IF "ttl" \in DOMAIN m.metadata THEN m.metadata.ttl
    ELSE IF ttl = 0 THEN 3600 ELSE ttl

\* C28: a set called with no ttl, None or 0 stores ttl 3600 in the entry's
\* metadata, and one called with another integer stores that integer; a get
\* judges the entry of its key by the ttl the entry carries, and by its own
\* ttl argument only when the entry carries none.
C28_TtlDefaulting ==
    /\ (Returned(1, "set") /\ inst[1].ret = JBool(TRUE))
          => \E j \in 1..Len(memories) :
                /\ EntriesFor(memories, inst[1].key) = {j}
                /\ memories[j].metadata.ttl
                      = IF inst[1].ttl = 0 THEN 3600 ELSE inst[1].ttl
    /\ Returned(1, "get")
          => LET r == inst[1]
                 E == EntriesFor(r.m0, r.key)
             IN  IF E = {} THEN r.ret = None
                 ELSE \A j \in E :
                         r.ret = IF SecondsAt(r.tick) - r.m0[j].metadata.cache_time
                                       < JudgedBy(r.m0[j], r.ttl)
                                 THEN Decode(r.m0[j].content)
                                 ELSE None

\* A set called without ttl has stored 3600, and a get of its key called with
\* ttl 1 one second later or more has returned the value.
C28_Witness ==
    /\ Returned(1, "get")
    /\ inst[1].key = "k" /\ inst[1].ttl = 1
    /\ prev[1].op = "set" /\ prev[1].ttl = 0
    /\ SecondsAt(inst[1].tick) - SecondsAt(prev[1].tick) >= 1
    /\ inst[1].ret = JInt(42)
    /\ \E j \in EntriesFor(memories, "k") : memories[j].metadata.ttl = 3600

\* A get of the entry that carries no ttl has judged it by its own argument:
\* expired after one second with ttl 1, live after 3601 with ttl 7200.
C28_WitnessArgument ==
    /\ Returned(1, "get")
    /\ inst[1].key = "n"
    /\ EntriesFor(inst[1].m0, "n") # {}
    /\ \/ inst[1].ttl = 1 /\ SecondsAt(inst[1].tick) = 1 /\ inst[1].ret = None
       \/ /\ inst[1].ttl = 2 * CACHE_TTL
          /\ SecondsAt(inst[1].tick) > CACHE_TTL
          /\ inst[1].ret = JInt(7)

----------------------------------------------------------------------------
(* The model catalogue: list_models with its pages and its module cache *)

\* The most pages a catalogue of the model has
MaxPages == 3

\* The item the platform lists as the i-th model of an API key
ModelItem(key, i) ==
    JDict([ name |-> JStr(ToString(i)),
            provider |-> JStr(IF key = "sk-1" THEN "openai" ELSE "anthropic") ])

\* The platform lists n models for the first key and m for the second.
Catalogs(n, m) ==
    [k \in ApiKeys |-> [i \in 1..(IF k = "sk-1" THEN n ELSE m) |-> ModelItem(k, i)]]

\* The numbers of models the platform may list: none, one page, one more than
\* a page, and MaxPages pages of which the last is not full.
CatalogSizes == {0, PageSize, PageSize + 1, MaxPages * PageSize - 50}

\* The pages a catalogue of the model can have beyond the first
AllSkips == PageSkips(MaxPages * PageSize)

\* One session with a key, and a catalogue of one of the sizes.
InitPages ==
    /\ InitCache(0)
    /\ session = "sk-1"
    /\ req = [c \in Clients |-> Quiet]
    /\ threads = <<>>
    /\ \E n \in CatalogSizes : catalog = Catalogs(n, 0)
    /\ models_cache = <<>>
    /\ models_cache_time = Epoch

\* One client asks for the models, one request after the other; any request
\* to the platform may fail, and the pages complete in any order.
NextPages ==
    \/ Request(1, "GET /api/models", NoInput)
    \/ \E ok \in BOOLEAN : ModelsHttp(1, ok)
    \/ \E skip \in AllSkips : \E ok \in BOOLEAN : ModelsPage(1, skip, ok)
    \/ ModelsStamp(1)
    \/ Tick

SpecPages == InitPages /\ [][NextPages]_vars

\* The session holds the first key, for which the platform lists a page and
\* a half, and one model more than a page for the second key.
InitModels ==
    /\ InitCache(0)
    /\ session = "sk-1"
    /\ req = [c \in Clients |-> Quiet]
    /\ threads = <<>>
    /\ catalog = Catalogs(PageSize + 50, PageSize + 1)
    /\ models_cache = <<>>
    /\ models_cache_time = Epoch

\* Client c's one request: GET /api/models
GetModels(c) ==
    /\ req[c].pc = "none"
    /\ Request(c, "GET /api/models", NoInput)

\* Client 3's one request: POST /api/auth with the second key
SwitchKey ==
    /\ req[3].pc = "none"
    /\ SetApiKey(3, JDict([api_key |-> JStr("sk-2")]))

\* Clients 1 and 2 ask for the models once each, at any time and overlapping
\* in any way, before or after the session's key changes; any request to
\* the platform may fail.
NextModels ==
    \/ \E c \in {1, 2} : GetModels(c)
    \/ SwitchKey
    \/ \E c \in {1, 2} : \E ok \in BOOLEAN : ModelsHttp(c, ok)
    \/ \E c \in {1, 2} : \E ok \in BOOLEAN : ModelsPage(c, PageSize, ok)
    \/ \E c \in {1, 2} : ModelsStamp(c)
    \/ Tick

SpecModels == InitModels /\ [][NextModels]_vars

----------------------------------------------------------------------------
(* C21: the cached catalogue *)

\* The elements of a sequence.
Range(s) == { s[i] : i \in 1..Len(s) }

\* The list of models holds every model the platform lists for key.
FullFor(models, key) == Range(ModelInfos(CatalogOf(key))) \subseteq Range(models)

\* C21: whenever _models_cache is populated it holds every item of every page
\* of the catalogue the platform lists for a key, also after a refresh in
\* which a page request failed.
C21_CacheHoldsFullCatalog ==
    models_cache # <<>>
    => \E key \in ApiKeys : CatalogOf(key) # <<>> /\ FullFor(models_cache, key)

----------------------------------------------------------------------------
(* C23: the pages of list_models *)

RECURSIVE InOrder(_, _)
\* The pages of items at the skips of order, one after the other.
InOrder(items, order) ==
    IF order = <<>> THEN <<>>
    ELSE SubSeq(items, Head(order) + 1, Min(Len(items), Head(order) + 100))
         \o InOrder(items, Tail(order))

\* C23: list_models makes one request to learn total; when total > 100 it
\* requests the pages at skip = 100, 200, ... < total and appends them after
\* the first page in the order of their completion, so that, when no page
\* request fails, the result holds every item of the catalogue exactly once
\* whatever the order; when total <= 100 it makes no further request.
C23_PagesOnce ==
    LET r == req[1]
        items == CatalogOf(r.held)
        total == Len(items)
    IN  /\ r.pc = "models_http" => r.calls = 1
        /\ r.pc \in {"models_pages", "models_stamp"}
              => /\ r.skips = { s \in 100..(total - 1) : s % 100 = 0 }
                 /\ r.calls = 1 + Cardinality(r.skips)
                 /\ total <= 100 => r.calls = 1
        /\ (r.pc = "models_stamp" /\ r.dropped = {})
              => /\ r.found = ModelInfos(SubSeq(items, 1, Min(total, 100))
                                         \o InOrder(items, r.order))
                 /\ Len(r.found) = total
                 /\ \A i \in 1..total :
                       Cardinality({ j \in 1..Len(r.found) :
                                        r.found[j].id = ToString(i) }) = 1

\* A refresh has gathered a catalogue of more than two pages, none of whose
\* requests failed, a later page completing before an earlier one.
C23_Witness ==
    /\ req[1].pc = "models_stamp"
    /\ req[1].dropped = {}
    /\ Len(req[1].order) >= 2
    /\ req[1].order[1] > req[1].order[2]
    /\ Len(req[1].found) > 2 * PageSize

\* A refresh of a catalogue of one page has made its one request.
C23_WitnessOnePage ==
    /\ req[1].pc = "models_stamp"
    /\ Len(req[1].found) = PageSize
    /\ req[1].calls = 1

----------------------------------------------------------------------------
(* C22: the window of the models cache and concurrent refreshes *)

\* Client c's request arrives in the step.
ArrivesNow(c) == req[c].pc = "none" /\ req'[c].pc # "none"

\* The complete result of the refresh r: the first page and, in the order of
\* their completion, the pages whose request did not fail.
CompleteResult(r) ==
    LET items == CatalogOf(r.held)
    IN  ModelInfos(SubSeq(items, 1, Min(Len(items), 100))
                   \o InOrder(items, SelectSeq(r.order, LAMBDA s : s \notin r.dropped)))

\* C22: the time the cache carries is the one a refresh that stored its list
\* read; a list_models called less than 3600 s after that time, the cache not
\* empty, returns the cached list without any request, and one called at
\* 3600 s or later fetches again; the cache changes only by a refresh
\* assigning its complete result, all its pages gathered, whatever another
\* refresh does at the same time.
C22_WindowAndLastWriter ==
    [][ /\ \A c \in {1, 2} :
              ArrivesNow(c)
              => IF models_cache # <<>>
                     /\ clock - models_cache_time < 3600 * TicksPerSecond
                 THEN /\ req'[c].pc = "done"
                      /\ req'[c].body = [data |-> models_cache]
                      /\ req'[c].calls = 0
                 ELSE /\ req'[c].pc = "models_http"
                      /\ req'[c].calls = 1
        /\ models_cache_time' # models_cache_time
              => \E c \in {1, 2} :
                    /\ req[c].pc = "models_stamp"
                    /\ req'[c].pc = "done"
                    /\ models_cache_time' = req[c].start
        /\ models_cache' # models_cache
              => \E c \in {1, 2} :
                    /\ req[c].pc \in {"models_http", "models_pages"}
                    /\ req'[c].pc = "models_stamp"
                    /\ Len(req'[c].order) = Cardinality(req'[c].skips)
                    /\ models_cache' = CompleteResult(req'[c])
      ]_vars

\* Two refreshes that began at the same time have both stored their lists,
\* which differ, and the cache is the list of one of them.
C22_Witness ==
    /\ \A c \in {1, 2} : req[c].pc = "done" /\ req[c].calls >= 1 /\ req[c].found # <<>>
    /\ req[1].start = req[2].start
    /\ req[1].found # req[2].found
    /\ models_cache = req[1].found

\* A request has been answered from the cache, and one that came 3600 s or
\* more after the refresh has fetched again.
C22_WitnessWindow ==
    /\ req[1].pc = "done" /\ req[1].calls >= 1 /\ req[1].found # <<>>
    /\ \/ /\ req[2].pc = "done" /\ req[2].calls = 0
          /\ req[2].body = [data |-> req[1].found]
          /\ req[2].start > req[1].start
       \/ /\ req[2].calls >= 1
          /\ req[2].start >= req[1].start + 3600 * TicksPerSecond

----------------------------------------------------------------------------
(* C29: one models cache for every API key *)

\* Client c has completed a fetch with the first key that gathered models.
FetchedWithFirst(c) ==
    /\ req[c].pc = "done"
    /\ req[c].ep = "GET /api/models"
    /\ req[c].held = "sk-1"
    /\ req[c].calls >= 1
    /\ req[c].found # <<>>

\* C29: a list_models called with the second key less than 3600 s after a
\* fetch with the first key that gathered models returns the models fetched
\* with the first key, none of which the platform lists for the second, and
\* makes no request; a list_models with the second key that does fetch
\* gathers models the platform lists for the second key.
C29_CacheSharedByKeys ==
    [][ \A c, d \in {1, 2} :
           /\ ( /\ c # d
                /\ ArrivesNow(d)
                /\ req'[d].held = "sk-2"
                /\ FetchedWithFirst(c)
                /\ clock - req[c].start < 3600 * TicksPerSecond )
              => /\ req'[d].pc = "done"
                 /\ req'[d].calls = 0
                 /\ req'[d].body = [data |-> req[c].found]
                 /\ Range(req[c].found) \cap Range(ModelInfos(CatalogOf("sk-2"))) = {}
           /\ (req[d].held = "sk-2" /\ req[d].pc = "models_stamp")
              => Range(req[d].found) \subseteq Range(ModelInfos(CatalogOf("sk-2")))
      ]_vars

\* A request made with the second key has been answered, with no request to
\* the platform, the models that a request made with the first key fetched.
C29_Witness ==
    /\ FetchedWithFirst(1)
    /\ req[2].pc = "done"
    /\ req[2].held = "sk-2"
    /\ req[2].calls = 0
    /\ req[2].body = [data |-> req[1].found]

----------------------------------------------------------------------------
(* C30: the counts and the mutations of the API *)

\* The handler of a mutation of client c has answered; `cache` tells whether
\* what it deleted was a cache holder or a memory of one.
Mutated(c, ep, cache) ==
    /\ req[c].pc = "none"
    /\ session # ""
    /\ Becomes(c, Answered([Arrives(c, ep, NoInput) EXCEPT
                               !.calls = 1,
                               !.dropped = IF cache THEN {"cache"} ELSE {}],
                           Success(ep)))
    /\ UNCHANGED <<clock, inst, prev, ops>>
    /\ UNCHANGED <<session, catalog, models_cache, models_cache_time>>

\* POST /api/assistants: create_assistant
ApiCreateAssistant(c) ==
    /\ Mutated(c, "POST /api/assistants", FALSE)
    /\ assistants' = Append(assistants, [id |-> nextId, name |-> "assistant"])
    /\ nextId' = nextId + 1
    /\ UNCHANGED <<memories, threads>>

\* DELETE /api/assistants/<id>: delete_assistant; the platform drops the
\* assistant with its memories.
ApiDeleteAssistant(c, id) ==
    /\ \E j \in 1..Len(assistants) : assistants[j].id = id
    /\ Mutated(c, "DELETE /api/assistants/{id}", id \in Holders)
    /\ assistants' = SelectSeq(assistants, LAMBDA a : a.id # id)
    /\ memories' = SelectSeq(memories, LAMBDA m : m.aid # id)
    /\ UNCHANGED <<nextId, threads>>

\* POST /api/memory: store_memory of a memory without metadata
ApiStoreMemory(c, aid) ==
    /\ \E j \in 1..Len(assistants) : assistants[j].id = aid
    /\ Mutated(c, "POST /api/memory", FALSE)
    /\ memories' = Added(nextId, aid, "note", NoMeta)
    /\ nextId' = nextId + 1
    /\ UNCHANGED <<assistants, threads>>

\* DELETE /api/memory/<id>?assistant_id=<aid>: delete_memory of the j-th
\* memory the platform holds
ApiDeleteMemory(c, j) ==
    /\ j <= Len(memories)
    /\ Mutated(c, "DELETE /api/memory/{id}", memories[j].aid \in Holders)
    /\ memories' = Removed(memories[j].id, memories[j].aid)
    /\ UNCHANGED <<assistants, nextId, threads>>

\* POST /api/threads: create_thread
ApiCreateThread(c) ==
    /\ Len(threads) < MaxThreads
    /\ Mutated(c, "POST /api/threads", FALSE)
    /\ threads' = Append(threads, ThreadPlain)
    /\ UNCHANGED <<assistants, memories, nextId>>

\* DELETE /api/threads/<id>: delete_thread
ApiDeleteThread(c) ==
    /\ threads # <<>>
    /\ Mutated(c, "DELETE /api/threads/{id}", FALSE)
    /\ threads' = Tail(threads)
    /\ UNCHANGED <<assistants, memories, nextId>>

\* The assistants a mutation of the model names: the first of the account
\* and the cache holders.
Named == {1} \cup Holders

\* An account of no or of one page of assistants and one thread.
InitMutate ==
    \E n \in AccountSizes : InitCache(n) /\ InitWeb("sk-1", <<ThreadPlain>>)

\* Client 1 asks for the number of assistants or of threads, one request
\* after the other; client 2 makes one mutation through the API, at any time.
NextMutate ==
    \/ /\ ops < MaxOps
       /\ \E ep \in {"GET /api/cache/assistants-count", "GET /api/cache/threads-count"} :
             CountRequest(1, ep)
    \/ ListAssistants(1)
    \/ CreateAssistant(1)
    \/ ListMemories(1)
    \/ DeleteListMemories(1)
    \/ DeleteDeleteMemory(1)
    \/ StoreMemory(1)
    \/ CountHit(1)
    \/ CountMiss(1)
    \/ CountListAssistants(1)
    \/ CountListThreads(1)
    \/ CountStored(1)
    \/ ApiCreateAssistant(2)
    \/ \E id \in Named : ApiDeleteAssistant(2, id)
    \/ \E aid \in Named : ApiStoreMemory(2, aid)
    \/ \E j \in 1..MaxOps : ApiDeleteMemory(2, j)
    \/ ApiCreateThread(2)
    \/ ApiDeleteThread(2)
    \/ Tick

SpecMutate == InitMutate /\ [][NextMutate]_vars

\* C30: once a count endpoint has computed and cached a count, the requests
\* to it of the next 3600 s answer that count with cached: true, whatever
\* assistants, memories or threads were created or deleted through the API
\* in between.
C30_CountsKeptThroughMutations ==
    FollowsCold(1) =>
        /\ req[1].status = 200
        /\ req[1].body = [count |-> req[1].before.body.count, cached |-> TRUE]


\* The part of C30 the code keeps: the same on an account whose first page of
\* assistants has room for the cache holder, when the mutation deleted
\* neither the holder nor a memory of it.
C30_CountsKeptWhileCacheSpared ==
    (FollowsCold(1) /\ inst[1].a0 < ListLimit /\ req[2].dropped = {}) =>
        /\ req[1].status = 200
        /\ req[1].body = [count |-> req[1].before.body.count, cached |-> TRUE]

\* A count has been answered from the cache after an assistant was created
\* through the API.
C30_WitnessSpared ==
    /\ FollowsCold(1)
    /\ req[1].ep = "GET /api/cache/assistants-count"
    /\ req[2].pc = "done" /\ req[2].ep = "POST /api/assistants"
    /\ req[2].start >= req[1].before.start
    /\ req[1].body.cached = TRUE
    /\ req[1].body.count # JInt(Len(assistants))

=============================================================================
